---- MODULE Spec2Model ----
(***************************************************************************)
(* Model of the scanner core of universal-crossref-mcp: the resource       *)
(* limiter and adaptive concurrency manager (scanner/performance.py), the  *)
(* change buffer and file monitor (scanner/file_monitor.py) and the async  *)
(* file scanner (scanner/file_scanner.py, scanner/__init__.py).            *)
(***************************************************************************)
EXTENDS Integers, Sequences, FiniteSets, TLC

(***************************************************************************)
(* Settings (utils/config.py) and model bounds.                            *)
(***************************************************************************)
memory_limit_mb == 1024
emergency_memory_limit_mb == 2048
cpu_usage_limit == 50

\* settings.max_concurrent_workers, scaled down
max_concurrent_workers == 2
initial_workers == max_concurrent_workers
max_workers == max_concurrent_workers * 2

\* number of 1s polls of acquire_worker while paused (range(60)), scaled down
PollLimit == 2
\* qualifying samples that are told apart
MaxSamples == 2
\* files the tracker of the performance specification counts
MaxTracked == 1
\* file_size arguments of release_worker
FileSizes == {0, 1}
\* number of semaphore objects the manager may create (caps scale-down)
MaxSems == 3

Workers == {"w1", "w2"}
Callback == "cb"
Tasks == Workers \cup {Callback}

MemSamples == {1024, 1025, 2048, 2049}
CpuSamples == {50, 51}
CpuPct == {69, 70, 90, 91}
MemPct == {79, 80, 90, 91}
\* metrics.files_per_second: the manager's tracker is never started, so
\* get_metrics finds no elapsed time and reports 0
FilesPerSecond == {0}

Min(a, b) == IF a < b THEN a ELSE b
Max(a, b) == IF a > b THEN a ELSE b

VARIABLES
    \* ResourceLimiter
    emergency_triggered, paused, auto_pause_on_high_load,
    emergency_sample_seen,      \* history: a sample above the emergency ceiling was evaluated
    emergency_notified,         \* history: "emergency" calls each limiter subscriber received
    qualifying_samples,         \* history: samples above the emergency ceiling, up to MaxSamples
    \* PerformanceTracker
    tracker,
    \* ConcurrencyManager
    current_workers,
    sems,                       \* every asyncio.Semaphore made so far; the last is self._semaphore
    \* callers of acquire_worker / release_worker
    pc, sleeps

perfVars == <<emergency_triggered, paused, auto_pause_on_high_load, emergency_sample_seen,
              emergency_notified, qualifying_samples, tracker, current_workers, sems, pc, sleeps>>

\* FileMonitor, ChangeBuffer, the filesystem under the root and the persistence port
VARIABLES
    fs,                         \* the files that exist
    db,                         \* the File rows, in id order
    now,                        \* time.time(), in seconds
    pending,                    \* handler tasks created by the event handler, not yet run
    changes,                    \* ChangeBuffer._changes with _last_change_time, in insertion order
    last_added,                 \* history, per path since it last left the buffer: the last
                                \* event add_change was given, when, and how many (up to 2)
    coalesced,                  \* history: the most events one change of loop_batch stands for
    mon_running,                \* FileMonitor._running
    loop_batch,                 \* what get_ready_changes returned to the loop, being processed
    stop_batch,                 \* what flush_all returned to stop(), being processed
    stop_pc                     \* where stop() is

monVars == <<fs, db, now, pending, changes, last_added, coalesced, mon_running,
             loop_batch, stop_batch, stop_pc>>

monRest == <<fs, now, pending, changes, last_added, coalesced, mon_running,
             loop_batch, stop_batch, stop_pc>>

\* AsyncFileScanner.scan_project, driven by UniversalScanner.scan_project
VARIABLES
    perf_enabled,               \* UniversalScanner holds a ScannerPerformanceManager
    consumer_callback,          \* scan_project was given a batch_callback of the consumer's
    root_exists,                \* the root path is a directory on disk
    scan_pc,                    \* where scan_project is
    scanner_running,            \* AsyncFileScanner._running
    stack,                      \* the live _scan_directory generators, innermost last
    yielded,                    \* the path _discover_files handed to scan_project
    stats,                      \* ScannerStats
    batch,                      \* the FileInfo batch being filled
    cb_idx,                     \* the batch callback's position in the batch
    emitted,                    \* history: the batches handed to the emit callback, as paths
    discovered,                 \* history: the paths _discover_files yielded in this scan
    last_discovered,            \* history: the paths it yielded in the scan before
    db_creates, db_updates,     \* history: file_repo.create / update calls of this scan
    scans                       \* scans completed

scanVars == <<perf_enabled, consumer_callback, root_exists, scan_pc, scanner_running, stack,
              yielded, stats, batch, cb_idx,
              emitted, discovered, last_discovered, db_creates, db_updates, scans>>

\* ResourceMonitor (the limiter's own)
VARIABLES
    monitor_running,            \* ResourceMonitor._running
    monitor_loops,              \* the _monitor_loop tasks made so far, where each is
    sample_writers,             \* history: the loops that appended to _samples since the
                                \* last start() that made a loop
    last_sample,                \* history: the latest sample a loop took, <<memory_mb, cpu>>
    last_events,                \* history: the events _check_limits sent for that sample
    samples,                    \* ResourceMonitor._samples, each sample by its capture number
    captured                    \* the number of samples collected so far

samplerVars == <<monitor_running, monitor_loops, sample_writers, last_sample, last_events,
                 samples, captured>>

\* FileMonitor._process_changes under FileMonitor._processing_lock
VARIABLES
    processing_lock,            \* the asyncio.Lock: _locked and the queue of waiters
    sweep_pc                    \* where the _process_changes call of the loop and of stop() is

sweepVars == <<processing_lock, sweep_pc>>

\* AsyncFileScanner.pause / resume
VARIABLES
    scanner_paused              \* AsyncFileScanner._paused

pauseVars == <<scanner_paused>>

\* HubUpdateQueue (one hub path)
VARIABLES
    hub_pending,                \* pending_updates[hub_path]: the updates, each with its retries
    hub_processing,             \* HubUpdateQueue.processing
    hub_current,                \* current_updates of the batch run in progress
    hub_timer,                  \* self.timer is armed
    hub_retry_timers,           \* armed timers of _retry_failed_updates
    hub_queued                  \* queue_hub_update calls so far

hubVars == <<hub_pending, hub_processing, hub_current, hub_timer, hub_retry_timers, hub_queued>>

vars == <<perfVars, monVars, scanVars, samplerVars, sweepVars, pauseVars, hubVars>>

(***************************************************************************)
(* asyncio.Semaphore as the manager uses it: _value, the deque of waiters  *)
(* and the waiters whose future has been resolved but which have not run.  *)
(***************************************************************************)
Semaphore(n) == [value |-> n, waiters |-> <<>>, woken |-> {}]

SemLocked(s) == s.value = 0 \/ Len(s.waiters) > 0

Pending(s) == {i \in 1..Len(s.waiters) : s.waiters[i] \notin s.woken}

WakeUpNext(s) ==
    IF Pending(s) = {} THEN s
    ELSE LET i == CHOOSE j \in Pending(s) : \A k \in Pending(s) : j <= k
         IN  [s EXCEPT !.value = @ - 1, !.woken = @ \cup {s.waiters[i]}]

SemRelease(s) == WakeUpNext([s EXCEPT !.value = @ + 1])

RemoveWaiter(s, t) ==
    [s EXCEPT !.waiters = SelectSeq(@, LAMBDA x : x # t), !.woken = @ \ {t}]

SemResume(s, t) ==
    LET s1 == RemoveWaiter(s, t)
    IN  IF s1.value > 0 THEN WakeUpNext(s1) ELSE s1

Cur == Len(sems)

Held == Cardinality({t \in Tasks : pc[t] = "holding"})

(***************************************************************************)
(* ResourceLimiter                                                         *)
(***************************************************************************)
\* the callbacks added with ResourceLimiter.add_callback
Subscribers == {"s1", "s2"}

\* _trigger_emergency that notifies on every qualifying sample
TriggerEmergencyEverySample ==
    /\ emergency_triggered' = TRUE
    /\ emergency_notified' = [s \in Subscribers |-> emergency_notified[s] + 1]
    /\ UNCHANGED paused

\* a subscriber that raises is caught and the next one is called
TriggerEmergency ==
    /\ IF emergency_triggered
       THEN UNCHANGED <<emergency_triggered, emergency_notified>>
       ELSE /\ emergency_triggered' = TRUE
            /\ emergency_notified' = [s \in Subscribers |-> emergency_notified[s] + 1]
    /\ UNCHANGED paused

TriggerPause ==
    /\ paused' = TRUE
    /\ UNCHANGED <<emergency_triggered, emergency_notified>>

\* the event types _check_limits hands to the limiter's subscribers for one
\* sample, all of them
LimitEventsNoReturn(memory_mb, cpu_percent) ==
    (IF memory_mb > emergency_memory_limit_mb /\ ~emergency_triggered
     THEN {"emergency"} ELSE {})
    \cup (IF memory_mb > memory_limit_mb THEN {"warning"} ELSE {})
    \cup (IF cpu_percent > cpu_usage_limit /\ auto_pause_on_high_load /\ ~paused
          THEN {"pause"} ELSE {})

\* the event types _check_limits hands to the limiter's subscribers for one
\* sample: _trigger_emergency and _trigger_pause notify only when they change
\* the state, _trigger_warning always; the emergency branch returns
LimitEvents(memory_mb, cpu_percent) ==
    IF memory_mb > emergency_memory_limit_mb
    THEN IF emergency_triggered THEN {} ELSE {"emergency"}
    ELSE (IF memory_mb > memory_limit_mb THEN {"warning"} ELSE {})
         \cup (IF cpu_percent > cpu_usage_limit /\ auto_pause_on_high_load /\ ~paused
               THEN {"pause"} ELSE {})

\* _check_limits whose paused state follows the CPU of the latest sample
CheckLimitsPauseFollowsCpu(memory_mb, cpu_percent) ==
    /\ IF memory_mb > emergency_memory_limit_mb
       THEN TriggerEmergency
       ELSE /\ paused' = (cpu_percent > cpu_usage_limit /\ auto_pause_on_high_load)
            /\ UNCHANGED <<emergency_triggered, emergency_notified>>
    /\ emergency_sample_seen' =
          (emergency_sample_seen \/ memory_mb > emergency_memory_limit_mb)
    /\ qualifying_samples' = IF memory_mb > emergency_memory_limit_mb
                             THEN Min(qualifying_samples + 1, MaxSamples)
                             ELSE qualifying_samples
    /\ UNCHANGED <<auto_pause_on_high_load, tracker, current_workers, sems, pc, sleeps>>

CheckLimits(memory_mb, cpu_percent) ==
    /\ IF memory_mb > emergency_memory_limit_mb
       THEN TriggerEmergency
       ELSE IF cpu_percent > cpu_usage_limit /\ auto_pause_on_high_load
            THEN TriggerPause
            ELSE UNCHANGED <<emergency_triggered, emergency_notified, paused>>
    /\ emergency_sample_seen' =
          (emergency_sample_seen \/ memory_mb > emergency_memory_limit_mb)
    /\ qualifying_samples' = IF memory_mb > emergency_memory_limit_mb
                             THEN Min(qualifying_samples + 1, MaxSamples)
                             ELSE qualifying_samples
    /\ UNCHANGED <<auto_pause_on_high_load, tracker, current_workers, sems, pc, sleeps>>

\* a reset_pause that resets the emergency state as well
ResetPauseAndEmergency ==
    /\ paused' = FALSE
    /\ emergency_triggered' = FALSE
    /\ UNCHANGED <<auto_pause_on_high_load, emergency_sample_seen, emergency_notified,
                   qualifying_samples, tracker, current_workers, sems, pc, sleeps>>

\* reset_pause
ResetPause ==
    /\ paused' = FALSE
    /\ UNCHANGED <<emergency_triggered, auto_pause_on_high_load, emergency_sample_seen,
                   emergency_notified, qualifying_samples, tracker, current_workers, sems, pc,
                   sleeps>>

(***************************************************************************)
(* ResourceMonitor                                                         *)
(***************************************************************************)
\* _monitor_loop tasks the model lets start() create
MaxLoops == 2

\* ResourceMonitor._max_samples (1000), scaled down
max_samples == 2
\* samples a behaviour collects
MaxCaptured == 4

\* the history that keeps the oldest samples when it is full
StoreSampleKeepOldest(history, usage) ==
    IF Len(history) >= max_samples THEN history ELSE Append(history, usage)

\* _monitor_loop: self._samples.append(usage), then pop(0) when longer than
\* _max_samples
StoreSample(history, usage) ==
    LET appended == Append(history, usage)
    IN  IF Len(appended) > max_samples THEN Tail(appended) ELSE appended

SamplerIdle ==
    /\ monitor_running = FALSE
    /\ monitor_loops = <<>>
    /\ sample_writers = {}
    /\ last_sample = <<>>
    /\ last_events = {}
    /\ samples = <<>>
    /\ captured = 0

\* ResourceMonitor.start: returns at once when _running, else sets it and
\* creates a task running _monitor_loop
ResourceMonitorStart ==
    /\ Len(monitor_loops) < MaxLoops
    /\ IF monitor_running
       THEN UNCHANGED samplerVars
       ELSE /\ monitor_running' = TRUE
            /\ monitor_loops' = Append(monitor_loops, "ready")
            /\ sample_writers' = {}
            /\ UNCHANGED <<last_sample, last_events, samples, captured>>

\* ResourceMonitor.stop
ResourceMonitorStop ==
    /\ monitor_running' = FALSE
    /\ UNCHANGED <<monitor_loops, sample_writers, last_sample, last_events, samples,
                   captured>>

\* _monitor_loop, from the test of "while self._running" to the next
\* asyncio.sleep: the sample is collected and appended and the callbacks run
\* (_check_limits), or _collect_usage raises and nothing is appended
MonitorLoop(l) ==
    /\ l \in 1..Len(monitor_loops)
    /\ monitor_loops[l] \in {"ready", "sleeping"}
    /\ UNCHANGED monitor_running
    /\ IF ~monitor_running
       THEN /\ monitor_loops' = [monitor_loops EXCEPT ![l] = "ended"]
            /\ UNCHANGED <<sample_writers, last_sample, last_events, samples, captured,
                           perfVars>>
       ELSE /\ monitor_loops' = [monitor_loops EXCEPT ![l] = "sleeping"]
            /\ \E collected \in BOOLEAN :
                  IF collected
                  THEN /\ captured < MaxCaptured
                       /\ captured' = captured + 1
                       /\ samples' = StoreSample(samples, captured + 1)
                       /\ sample_writers' = sample_writers \cup {l}
                       /\ \E m \in MemSamples, c \in CpuSamples :
                             /\ CheckLimits(m, c)
                             /\ last_sample' = <<m, c>>
                             /\ last_events' = LimitEvents(m, c)
                  ELSE UNCHANGED <<sample_writers, last_sample, last_events, samples,
                                   captured, perfVars>>

(***************************************************************************)
(* ConcurrencyManager                                                      *)
(***************************************************************************)
CMAcquire(t) ==
    IF ~SemLocked(sems[Cur])
    THEN /\ sems' = [sems EXCEPT ![Cur].value = @ - 1]
         /\ pc' = [pc EXCEPT ![t] = "holding"]
    ELSE /\ sems' = [sems EXCEPT ![Cur].waiters = Append(@, t)]
         /\ pc' = [pc EXCEPT ![t] = "blocked"]

CMRelease == sems' = [sems EXCEPT ![Cur] = SemRelease(@)]

ScaleUp ==
    LET new == Min(current_workers + 1, max_workers)
    IN  /\ current_workers' = new
        /\ sems' = IF new > current_workers
                   THEN [sems EXCEPT ![Cur].value = @ + (new - current_workers)]
                   ELSE sems

ScaleDown ==
    LET new == Max(current_workers - 1, 1)
        used_permits == current_workers - sems[Cur].value
        new_permits == Max(0, new - used_permits)
    IN  /\ current_workers' = new
        /\ sems' = IF new < current_workers
                   THEN Append(sems, Semaphore(new_permits))
                   ELSE sems

ShouldScaleUp(cpu, mem, err) ==
    cpu < 70 /\ mem < 80 /\ err < 5 /\ current_workers < max_workers

ShouldScaleDown(cpu, mem, err, fps) ==
    (cpu > 90 \/ mem > 90 \/ err > 10 \/ fps < 1) /\ current_workers > 1

\* an adjustment that scales without looking at the range of current_workers
AdjustConcurrencyUnbounded(cpu, mem, err, fps) ==
    /\ Len(sems) < MaxSems
    /\ IF cpu < 70 /\ mem < 80 /\ err < 5
       THEN /\ current_workers' = current_workers + 1
            /\ sems' = [sems EXCEPT ![Cur].value = @ + 1]
       ELSE IF cpu > 90 \/ mem > 90 \/ err > 10 \/ fps < 1
       THEN /\ current_workers' = current_workers - 1
            /\ sems' = Append(sems, Semaphore(Max(0, sems[Cur].value - 1)))
       ELSE UNCHANGED <<current_workers, sems>>
    /\ UNCHANGED <<emergency_triggered, paused, auto_pause_on_high_load,
                   emergency_sample_seen, emergency_notified, qualifying_samples,
                   tracker, pc, sleeps>>

\* an adjustment that looks at the scale-down condition first
AdjustConcurrencyDownFirst(cpu, mem, err, fps) ==
    /\ Len(sems) < MaxSems
    /\ IF ShouldScaleDown(cpu, mem, err, fps) THEN ScaleDown
       ELSE IF ShouldScaleUp(cpu, mem, err) THEN ScaleUp
       ELSE UNCHANGED <<current_workers, sems>>
    /\ UNCHANGED <<emergency_triggered, paused, auto_pause_on_high_load,
                   emergency_sample_seen, emergency_notified, qualifying_samples,
                   tracker, pc, sleeps>>

\* one adjustment that passed the interval check
AdjustConcurrency(cpu, mem, err, fps) ==
    /\ Len(sems) < MaxSems
    /\ IF ShouldScaleUp(cpu, mem, err) THEN ScaleUp
       ELSE IF ShouldScaleDown(cpu, mem, err, fps) THEN ScaleDown
       ELSE UNCHANGED <<current_workers, sems>>
    /\ UNCHANGED <<emergency_triggered, paused, auto_pause_on_high_load,
                   emergency_sample_seen, emergency_notified, qualifying_samples,
                   tracker, pc, sleeps>>

\* a waiter whose future was resolved runs again and returns from acquire()
Resume(t) ==
    /\ pc[t] = "blocked"
    /\ \E k \in 1..Len(sems) :
          /\ t \in sems[k].woken
          /\ sems' = [sems EXCEPT ![k] = SemResume(@, t)]
    /\ pc' = [pc EXCEPT ![t] = "holding"]
    /\ UNCHANGED <<emergency_triggered, paused, auto_pause_on_high_load,
                   emergency_sample_seen, emergency_notified, qualifying_samples,
                   tracker, current_workers, sleeps>>

(***************************************************************************)
(* ScannerPerformanceManager                                               *)
(***************************************************************************)
\* acquire_worker without the emergency check
AcquireWorkerNoEmergencyCheck(t) ==
    /\ pc[t] = "idle"
    /\ IF paused
       THEN /\ pc' = [pc EXCEPT ![t] = "sleeping"]
            /\ sleeps' = [sleeps EXCEPT ![t] = 1]
            /\ UNCHANGED sems
       ELSE /\ CMAcquire(t)
            /\ UNCHANGED sleeps
    /\ UNCHANGED <<emergency_triggered, paused, auto_pause_on_high_load,
                   emergency_sample_seen, emergency_notified, qualifying_samples,
                   tracker, current_workers>>

AcquireWorker(t) ==
    /\ pc[t] = "idle"
    /\ IF emergency_triggered
       THEN /\ pc' = [pc EXCEPT ![t] = "refused"]
            /\ UNCHANGED <<sems, sleeps>>
       ELSE IF paused
            THEN /\ pc' = [pc EXCEPT ![t] = "sleeping"]
                 /\ sleeps' = [sleeps EXCEPT ![t] = 1]
                 /\ UNCHANGED sems
            ELSE /\ CMAcquire(t)
                 /\ UNCHANGED sleeps
    /\ UNCHANGED <<emergency_triggered, paused, auto_pause_on_high_load,
                   emergency_sample_seen, emergency_notified, qualifying_samples,
                   tracker, current_workers>>

\* asyncio.sleep(1) of the paused poll returns
PollWake(t) ==
    /\ pc[t] = "sleeping"
    /\ IF sleeps[t] >= PollLimit
       THEN /\ pc' = [pc EXCEPT ![t] = "still_paused"]
            /\ sleeps' = [sleeps EXCEPT ![t] = 0]
            /\ UNCHANGED sems
       ELSE IF ~paused
            THEN /\ CMAcquire(t)
                 /\ sleeps' = [sleeps EXCEPT ![t] = 0]
            ELSE /\ sleeps' = [sleeps EXCEPT ![t] = @ + 1]
                 /\ UNCHANGED <<pc, sems>>
    /\ UNCHANGED <<emergency_triggered, paused, auto_pause_on_high_load,
                   emergency_sample_seen, emergency_notified, qualifying_samples,
                   tracker, current_workers>>

\* PerformanceTracker.record_file
RecordFile(tr, size_bytes, error) ==
    [files_processed |-> tr.files_processed + 1,
     errors_count |-> IF error THEN tr.errors_count + 1 ELSE tr.errors_count]

\* PerformanceTracker.get_metrics: error_rate, in percent (a whole number for
\* the counts that are reached here)
ErrorRate(tr) ==
    IF tr.files_processed > 0 THEN (tr.errors_count * 100) \div tr.files_processed ELSE 0

\* release_worker(file_size, error): the tracker is fed "if file_size > 0"
RecordReleased(file_size, error) ==
    tracker' = IF file_size > 0 THEN RecordFile(tracker, file_size, error) ELSE tracker

ReleaseWorker(t, file_size, error) ==
    /\ pc[t] = "holding"
    /\ CMRelease
    /\ RecordReleased(file_size, error)
    /\ pc' = [pc EXCEPT ![t] = "idle"]
    /\ UNCHANGED <<emergency_triggered, paused, auto_pause_on_high_load,
                   emergency_sample_seen, emergency_notified, qualifying_samples,
                   current_workers, sleeps>>

\* the caller of a failed acquire_worker handles the RuntimeError
Raised(t) ==
    /\ pc[t] \in {"refused", "still_paused"}
    /\ pc' = [pc EXCEPT ![t] = "idle"]
    /\ UNCHANGED <<emergency_triggered, paused, auto_pause_on_high_load,
                   emergency_sample_seen, emergency_notified, qualifying_samples,
                   tracker, current_workers, sems, sleeps>>

(***************************************************************************)
(* The watched tree, the persistence port and single-file analysis         *)
(***************************************************************************)
\* files under the root that the monitor specification moves around
MonPaths == {"a.py", "b.bin"}

\* exclude_patterns of the scanning configuration
ExcludedPaths == {"node_modules/x.js", "node_modules/pkg", "vendor", "vendor/v.py"}

\* ChangeBuffer(buffer_time=2.0)
buffer_time == 2

\* ChangeBuffer(max_size=1000), scaled down; add_change compares the size of
\* the buffer with it and writes a log line, nothing else
max_size == 1

\* the clock of the model runs for one debounce window
MaxTime == buffer_time
MaxPending == 1
MaxRecords == 2

None == "None"

\* FileClassifier.classify_file, by extension
Classify(p) ==
    CASE p \in {"a.py", "node_modules/x.js", "vendor/v.py", "src/c.py", "src/deep/d.py"} -> "code"
      [] p \in {"src/q.sql"} -> "database"
      [] OTHER -> "unknown"

TextLike == {"code", "config", "docs", "markup", "style", "template"}

\* hashlib.sha256 over the file's bytes (the content of a file is named by its path)
Sha256(content) == "sha256:" \o content

\* files that stat() finds but open() refuses
Unreadable == {"src/c.py"}

\* files that may be gone when _analyze_file stats them
Vanishing == {"src/q.sql"}

\* stat().st_size, in bytes
Size(p) == IF p = "src/q.sql" THEN 0 ELSE 1

\* _calculate_file_hash: None when the file cannot be read
CalculateFileHash(p) == IF p \in Unreadable THEN None ELSE Sha256(p)

\* _detect_encoding: None when the file cannot be read
DetectEncoding(p) == IF p \in Unreadable THEN None ELSE "utf-8"

\* _analyze_file that hashes every file
AnalyzeFileHashAll(p) ==
    [relative_path |-> p,
     size |-> Size(p),
     file_type |-> Classify(p),
     content_hash |-> CalculateFileHash(p),
     encoding |-> DetectEncoding(p)]

\* AsyncFileScanner._analyze_file on an existing file: the FileInfo
AnalyzeFile(p) ==
    [relative_path |-> p,
     size |-> Size(p),
     file_type |-> Classify(p),
     content_hash |-> IF Classify(p) \in TextLike THEN CalculateFileHash(p) ELSE None,
     encoding |-> IF Classify(p) \in TextLike THEN DetectEncoding(p) ELSE None]

\* FileInfo.to_dict
ToDict(file_info) ==
    [relative_path |-> file_info.relative_path,
     file_type |-> file_info.file_type,
     content_hash |-> IF file_info.content_hash = None THEN "" ELSE file_info.content_hash,
     status |-> "discovered"]

\* AsyncFileScanner._should_include_file: stat, exclude patterns, include patterns
ShouldIncludeFile(p) ==
    /\ p \in fs
    /\ p \notin ExcludedPaths

\* FileRepository.get_by_path: the row's id, 0 for none, -1 when scalar_one_or_none raises
GetByPath(d, p) ==
    LET ids == {i \in 1..Len(d) : d[i].relative_path = p}
    IN  IF ids = {} THEN 0
        ELSE IF Cardinality(ids) = 1 THEN CHOOSE i \in ids : TRUE
        ELSE -1

\* BaseRepository.update(id, **to_dict)
UpdateRow(d, id, fields) == [d EXCEPT ![id] = fields]

\* BaseRepository.update(id, status=FileStatus.DELETED)
MarkDeleted(d, id) == [d EXCEPT ![id].status = "deleted"]

\* BaseRepository.create
CreateRow(d, fields) == Append(d, fields)

(***************************************************************************)
(* ChangeBuffer                                                            *)
(***************************************************************************)
BufferIndex(buf, p) ==
    LET ids == {i \in 1..Len(buf) : buf[i].event.file_path = p}
    IN  IF ids = {} THEN 0 ELSE CHOOSE i \in ids : TRUE

\* add_change that keeps the first event of a path and only refreshes its time
AddChangeKeepFirst(buf, event, current_time) ==
    LET i == BufferIndex(buf, event.file_path)
    IN  IF i = 0
        THEN Append(buf, [event |-> event, last_change_time |-> current_time])
        ELSE [buf EXCEPT ![i].last_change_time = current_time]

\* add_change: later events override earlier ones for the same file
AddChange(buf, event, current_time) ==
    LET i == BufferIndex(buf, event.file_path)
        entry == [event |-> event, last_change_time |-> current_time]
    IN  IF i = 0 THEN Append(buf, entry) ELSE [buf EXCEPT ![i] = entry]

IsReady(entry, current_time) == current_time - entry.last_change_time >= buffer_time

Events(buf) == [i \in 1..Len(buf) |-> buf[i].event]

\* get_ready_changes: the ready changes, and what stays in the buffer
ReadyChanges(buf, current_time) ==
    Events(SelectSeq(buf, LAMBDA e : IsReady(e, current_time)))

AfterReady(buf, current_time) ==
    SelectSeq(buf, LAMBDA e : ~IsReady(e, current_time))

\* flush_all
FlushAll(buf) == Events(buf)

(***************************************************************************)
(* FileMonitor reconciliation                                              *)
(***************************************************************************)
\* _process_created_files, one path
ProcessCreated(d, change) ==
    IF change.file_path \notin fs THEN d
    ELSE CreateRow(d, ToDict(AnalyzeFile(change.file_path)))

\* _process_modified_files, one path
ProcessModified(d, change) ==
    LET id == GetByPath(d, change.file_path)
    IN  IF change.file_path \notin fs \/ id = -1 THEN d
        ELSE IF id > 0 THEN UpdateRow(d, id, ToDict(AnalyzeFile(change.file_path)))
        ELSE CreateRow(d, ToDict(AnalyzeFile(change.file_path)))

\* _process_deleted_files, one path
ProcessDeleted(d, change) ==
    LET id == GetByPath(d, change.file_path)
    IN  IF id > 0 THEN MarkDeleted(d, id) ELSE d

\* _process_moved_files, one (old_path, new_path) pair as _process_changes
\* builds it: (change.old_path, change.file_path)
ProcessMoved(d, change) ==
    LET old_path == change.old_path
        new_path == change.file_path
        id == GetByPath(d, old_path)
    IN  IF id > 0
        THEN IF new_path \in fs
             THEN UpdateRow(d, id, ToDict(AnalyzeFile(new_path)))
             ELSE MarkDeleted(d, id)
        ELSE d

ProcessOne(d, change) ==
    CASE change.event_type = "created" -> ProcessCreated(d, change)
      [] change.event_type = "modified" -> ProcessModified(d, change)
      [] change.event_type = "deleted" -> ProcessDeleted(d, change)
      [] change.event_type = "moved" -> ProcessMoved(d, change)

RECURSIVE ProcessKind(_, _, _)
ProcessKind(d, ready, kind) ==
    IF ready = <<>> THEN d
    ELSE ProcessKind(IF Head(ready).event_type = kind THEN ProcessOne(d, Head(ready)) ELSE d,
                     Tail(ready), kind)

\* _process_changes: created, then modified, then deleted, then moved
ProcessChanges(d, ready) ==
    ProcessKind(ProcessKind(ProcessKind(ProcessKind(d, ready, "created"),
                                        ready, "modified"),
                            ready, "deleted"),
                ready, "moved")

(***************************************************************************)
(* The filesystem and the watchdog observer                                *)
(***************************************************************************)
Notification(kind, src, dest) == [kind |-> kind, src_path |-> src, dest_path |-> dest]

\* the thread that calls the handler's on_* method: the watchdog observer's
\* dispatcher thread, or the thread of the event loop (a direct call)
Threads == {"observer", "loop"}

\* AsyncFileSystemEventHandler.on_*: asyncio.create_task(_handle_event(..)).
\* create_task needs the running loop of the calling thread: on the loop's
\* thread the task is created, on the observer's thread it raises RuntimeError
\* and no task exists
Dispatch(n, thread) ==
    IF mon_running /\ thread = "loop"
    THEN pending' = Append(pending, n)
    ELSE UNCHANGED pending

FsQuiet == UNCHANGED <<db, now, changes, last_added, coalesced, mon_running, loop_batch,
                       stop_batch, stop_pc>>

FsCreate(p, thread) ==
    /\ p \notin fs
    /\ Len(pending) < MaxPending
    /\ fs' = fs \cup {p}
    /\ Dispatch(Notification("created", p, None), thread)
    /\ FsQuiet

FsModify(p, thread) ==
    /\ p \in fs
    /\ Len(pending) < MaxPending
    /\ UNCHANGED fs
    /\ Dispatch(Notification("modified", p, None), thread)
    /\ FsQuiet

FsDelete(p, thread) ==
    /\ p \in fs
    /\ Len(pending) < MaxPending
    /\ fs' = fs \ {p}
    /\ Dispatch(Notification("deleted", p, None), thread)
    /\ FsQuiet

FsMove(p, q, thread) ==
    /\ p \in fs
    /\ q # p
    /\ Len(pending) < MaxPending
    /\ fs' = (fs \ {p}) \cup {q}
    /\ Dispatch(Notification("moved", p, q), thread)
    /\ FsQuiet

Tick ==
    /\ now < MaxTime
    /\ now' = now + 1
    /\ UNCHANGED <<fs, db, pending, changes, last_added, coalesced, mon_running,
                   loop_batch, stop_batch, stop_pc>>

(***************************************************************************)
(* FileMonitor                                                             *)
(***************************************************************************)
\* the FileChangeEvent _handle_event builds: file_path from src_path,
\* old_path from dest_path when the event has one
ChangeEvent(n) ==
    [event_type |-> n.kind, file_path |-> n.src_path, old_path |-> n.dest_path]

\* _handle_event accepts the notification (files only; every path is under the root)
Accepted(n) == ShouldIncludeFile(n.src_path)

Noted(la, event, time) ==
    [p \in DOMAIN la \cup {event.file_path} |->
        IF p = event.file_path
        THEN [event |-> event, time |-> time,
              n |-> IF p \in DOMAIN la THEN 2 ELSE 1]
        ELSE la[p]]

BufferedPaths(buf) == {buf[i].event.file_path : i \in 1..Len(buf)}

\* the oldest handler task runs
HandleEvent ==
    /\ pending # <<>>
    /\ pending' = Tail(pending)
    /\ IF Accepted(Head(pending))
       THEN /\ changes' = AddChange(changes, ChangeEvent(Head(pending)), now)
            /\ last_added' = Noted(last_added, ChangeEvent(Head(pending)), now)
       ELSE UNCHANGED <<changes, last_added>>
    /\ UNCHANGED <<fs, db, now, coalesced, mon_running, loop_batch, stop_batch, stop_pc>>

\* _process_changes_loop: one poll of the buffer
LoopPoll ==
    /\ mon_running
    /\ loop_batch = <<>>
    /\ ReadyChanges(changes, now) # <<>>
    /\ loop_batch' = ReadyChanges(changes, now)
    /\ changes' = AfterReady(changes, now)
    /\ last_added' = [p \in BufferedPaths(changes') |-> last_added[p]]
    /\ coalesced' = IF \E p \in DOMAIN last_added \ BufferedPaths(changes') :
                         last_added[p].n = 2
                    THEN 2 ELSE 1
    /\ UNCHANGED <<fs, db, now, pending, mon_running, stop_batch, stop_pc>>

\* the loop's sweep
LoopProcess ==
    /\ loop_batch # <<>>
    /\ Len(ProcessChanges(db, loop_batch)) <= MaxRecords
    /\ db' = ProcessChanges(db, loop_batch)
    /\ loop_batch' = <<>>
    /\ coalesced' = 0
    /\ UNCHANGED <<fs, now, pending, changes, last_added, mon_running, stop_batch, stop_pc>>

\* stop(), up to its first suspension: the observer is stopped and joined and
\* the buffer flushed; with nothing to process it returns at once
StopFlush ==
    /\ mon_running
    /\ mon_running' = FALSE
    /\ stop_batch' = FlushAll(changes)
    /\ changes' = <<>>
    /\ last_added' = <<>>
    /\ stop_pc' = IF FlushAll(changes) = <<>> THEN "returned" ELSE "flushed"
    /\ UNCHANGED <<fs, db, now, pending, coalesced, loop_batch>>

\* stop()'s sweep, under _processing_lock, and its return
StopProcess ==
    /\ stop_pc = "flushed"
    /\ loop_batch = <<>>
    /\ Len(ProcessChanges(db, stop_batch)) <= MaxRecords
    /\ db' = ProcessChanges(db, stop_batch)
    /\ stop_batch' = <<>>
    /\ stop_pc' = "returned"
    /\ UNCHANGED <<fs, now, pending, changes, last_added, coalesced, mon_running,
                   loop_batch>>

\* the tree as a previous scan left it: every file has its row
ScannedRows(files) ==
    LET RECURSIVE Rows(_)
        Rows(S) == IF S = {} THEN <<>>
                   ELSE LET p == CHOOSE x \in S : TRUE
                        IN  Append(Rows(S \ {p}), ToDict(AnalyzeFile(p)))
    IN  Rows(files)

(***************************************************************************)
(* _process_changes, one kind of change at a time, under _processing_lock  *)
(***************************************************************************)
\* the callers of _process_changes: _process_changes_loop and stop()
SweepTasks == {"loop", "stop"}

Kinds == <<"created", "modified", "deleted", "moved">>

SweepIdle ==
    /\ processing_lock = [locked |-> FALSE, waiters |-> <<>>]
    /\ sweep_pc = [t \in SweepTasks |-> "idle"]

\* the changes the caller hands to _process_changes
SweepBatch(t) == IF t = "loop" THEN loop_batch ELSE stop_batch

\* the caller has changes to process: "if changes:" / "if remaining_changes:"
SweepWanted(t) == IF t = "loop" THEN loop_batch # <<>> ELSE stop_pc = "flushed"

SweepQuiet == UNCHANGED <<fs, now, pending, changes, last_added, mon_running>>

\* _process_changes that does not take the lock
ProcessChangesEnterNoLock(t) ==
    /\ sweep_pc[t] = "idle"
    /\ SweepWanted(t)
    /\ sweep_pc' = [sweep_pc EXCEPT ![t] = Kinds[1]]
    /\ UNCHANGED <<processing_lock, db, coalesced, loop_batch, stop_batch, stop_pc>>
    /\ SweepQuiet

\* _process_changes: "async with self._processing_lock", Lock.acquire
ProcessChangesEnter(t) ==
    /\ sweep_pc[t] = "idle"
    /\ SweepWanted(t)
    /\ IF ~processing_lock.locked /\ processing_lock.waiters = <<>>
       THEN /\ processing_lock' = [processing_lock EXCEPT !.locked = TRUE]
            /\ sweep_pc' = [sweep_pc EXCEPT ![t] = Kinds[1]]
       ELSE /\ processing_lock' = [processing_lock EXCEPT !.waiters = Append(@, t)]
            /\ sweep_pc' = [sweep_pc EXCEPT ![t] = "waiting"]
    /\ UNCHANGED <<db, coalesced, loop_batch, stop_batch, stop_pc>>
    /\ SweepQuiet

\* the first waiter of the released lock runs again and takes it
LockWake(t) ==
    /\ sweep_pc[t] = "waiting"
    /\ ~processing_lock.locked
    /\ Head(processing_lock.waiters) = t
    /\ processing_lock' = [locked |-> TRUE, waiters |-> Tail(processing_lock.waiters)]
    /\ sweep_pc' = [sweep_pc EXCEPT ![t] = Kinds[1]]
    /\ UNCHANGED <<db, coalesced, loop_batch, stop_batch, stop_pc>>
    /\ SweepQuiet

NextKind(kind) == Kinds[(CHOOSE i \in 1..Len(Kinds) : Kinds[i] = kind) + 1]

\* _process_changes: the changes of one kind are processed; after the last
\* kind the lock is released and the caller goes on
ProcessChangesStage(t) ==
    /\ sweep_pc[t] \in {Kinds[i] : i \in 1..Len(Kinds)}
    /\ Len(ProcessKind(db, SweepBatch(t), sweep_pc[t])) <= MaxRecords
    /\ db' = ProcessKind(db, SweepBatch(t), sweep_pc[t])
    /\ IF sweep_pc[t] # Kinds[Len(Kinds)]
       THEN /\ sweep_pc' = [sweep_pc EXCEPT ![t] = NextKind(@)]
            /\ UNCHANGED <<processing_lock, coalesced, loop_batch, stop_batch, stop_pc>>
       ELSE /\ sweep_pc' = [sweep_pc EXCEPT ![t] = "idle"]
            /\ processing_lock' = [processing_lock EXCEPT !.locked = FALSE]
            /\ IF t = "loop"
               THEN /\ loop_batch' = <<>>
                    /\ coalesced' = 0
                    /\ UNCHANGED <<stop_batch, stop_pc>>
               ELSE /\ stop_batch' = <<>>
                    /\ stop_pc' = "returned"
                    /\ UNCHANGED <<loop_batch, coalesced>>
    /\ SweepQuiet

MonInit ==
    /\ fs = {"a.py"}
    /\ db = ScannedRows(fs)
    /\ now = 0
    /\ pending = <<>>
    /\ changes = <<>>
    /\ last_added = <<>>
    /\ coalesced = 0
    /\ mon_running = TRUE
    /\ loop_batch = <<>>
    /\ stop_batch = <<>>
    /\ stop_pc = "idle"


(***************************************************************************)
(* The tree the scanner crawls (unchanged between scans)                   *)
(***************************************************************************)
Root == "."

TreeDirs == {Root, "src", "src/deep", "node_modules", "node_modules/pkg", "vendor"}

\* a symbolic link in the root that points back at the root: a cycle
TreeLinks == {"link"}

TreeFiles == {"a.py", "src/c.py", "src/b.bin", "src/q.sql", "src/deep/d.py",
              "node_modules/x.js", "vendor/v.py"}

\* a listing whose order changes from one scan to the next
EntriesUnstable(d) ==
    LET listing == CASE d = "src" -> <<"src/deep", "src/c.py", "src/b.bin", "src/q.sql">>
                     [] d = "src/deep" -> <<"src/deep/d.py">>
                     [] d = "node_modules" -> <<"node_modules/x.js", "node_modules/pkg">>
                     [] d = "node_modules/pkg" -> <<>>
                     [] d = "vendor" -> <<"vendor/v.py">>
                     [] OTHER -> <<"vendor", "a.py", "node_modules", "link", "src">>
    IN  IF scans % 2 = 0 THEN listing
        ELSE [i \in 1..Len(listing) |-> listing[Len(listing) + 1 - i]]

\* directory.iterdir(): the order is the file system's, the same for as long
\* as the directory is unchanged
Entries(d) ==
    CASE d = Root \/ d \in TreeLinks -> <<"vendor", "a.py", "node_modules", "link", "src">>
      [] d = "src" -> <<"src/deep", "src/c.py", "src/b.bin", "src/q.sql">>
      [] d = "src/deep" -> <<"src/deep/d.py">>
      [] d = "node_modules" -> <<"node_modules/x.js", "node_modules/pkg">>
      [] d = "node_modules/pkg" -> <<>>
      [] d = "vendor" -> <<"vendor/v.py">>

\* entry.is_dir() follows links; entry.is_symlink() does not
IsDir(entry) == entry \in TreeDirs \cup TreeLinks

IsSymlink(entry) == entry \in TreeLinks

\* scanning configuration, scaled down
max_directory_depth == 1
emergency_stop_file_count == 1
scan_batch_size == 2
MaxScans == 2

\* _should_include_directory: the pattern "**/node_modules/**" matches what
\* lies under the directory, not the directory itself; the pattern "vendor"
\* matches the directory and what lies under it
ShouldIncludeDirectory(d) == d \notin ExcludedPaths

ZeroStats ==
    [files_discovered |-> 0, files_processed |-> 0, files_skipped |-> 0,
     files_errored |-> 0, directories_scanned |-> 0, current_depth |-> 0, max_depth |-> 0]

Frame(d, depth) == [dir |-> d, depth |-> depth, phase |-> "enter", idx |-> 1]

Top == stack[Len(stack)]

Pop(st) == SubSeq(st, 1, Len(st) - 1)

SetTop(st, f) == [st EXCEPT ![Len(st)] = f]

Undiscovered == UNCHANGED <<discovered, last_discovered>>

ScanQuiet == UNCHANGED <<db, perf_enabled, consumer_callback, root_exists, batch, cb_idx,
                         emitted, db_creates, db_updates, scans>>

\* scan_project starts: _running, fresh stats, an empty batch, the generator at the root
ScanStart ==
    /\ scan_pc \in {"idle", "done", "failed"}
    /\ scans < MaxScans
    /\ scan_pc' = "discover"
    /\ scanner_running' = TRUE
    /\ stats' = ZeroStats
    /\ batch' = <<>>
    /\ stack' = <<Frame(Root, 0)>>
    /\ yielded' = None
    /\ emitted' = <<>>
    /\ discovered' = <<>>
    /\ last_discovered' = discovered
    /\ db_creates' = 0
    /\ db_updates' = 0
    /\ UNCHANGED <<db, perf_enabled, consumer_callback, root_exists, cb_idx, scans>>

\* _scan_directory without the test of the depth
EnterDirectoryAnyDepth ==
    /\ Undiscovered
    /\ scan_pc = "discover"
    /\ stack # <<>>
    /\ Top.phase = "enter"
    /\ IF stats.files_discovered > emergency_stop_file_count
       THEN stack' = Pop(stack) /\ UNCHANGED stats
       ELSE IF ~ShouldIncludeDirectory(Top.dir)
       THEN /\ stack' = Pop(stack)
            /\ stats' = [stats EXCEPT !.current_depth = Top.depth,
                                      !.max_depth = Max(@, Top.depth)]
       ELSE IF Top.dir = Root /\ ~root_exists
       THEN \* iterdir() raises FileNotFoundError, caught by "except Exception"
            /\ stack' = Pop(stack)
            /\ stats' = [stats EXCEPT !.current_depth = Top.depth,
                                      !.max_depth = Max(@, Top.depth),
                                      !.directories_scanned = @ + 1]
       ELSE /\ stack' = SetTop(stack, [Top EXCEPT !.phase = "files"])
            /\ stats' = [stats EXCEPT !.current_depth = Top.depth,
                                      !.max_depth = Max(@, Top.depth),
                                      !.directories_scanned = @ + 1]
    /\ UNCHANGED <<scan_pc, scanner_running, yielded>>
    /\ ScanQuiet

\* _scan_directory, from its entry to the listing of the directory
EnterDirectory ==
    /\ Undiscovered
    /\ scan_pc = "discover"
    /\ stack # <<>>
    /\ Top.phase = "enter"
    /\ IF Top.depth > max_directory_depth
       THEN stack' = Pop(stack) /\ UNCHANGED stats
       ELSE IF stats.files_discovered > emergency_stop_file_count
       THEN stack' = Pop(stack) /\ UNCHANGED stats
       ELSE IF ~ShouldIncludeDirectory(Top.dir)
       THEN /\ stack' = Pop(stack)
            /\ stats' = [stats EXCEPT !.current_depth = Top.depth,
                                      !.max_depth = Max(@, Top.depth)]
       ELSE IF Top.dir = Root /\ ~root_exists
       THEN \* iterdir() raises FileNotFoundError, caught by "except Exception"
            /\ stack' = Pop(stack)
            /\ stats' = [stats EXCEPT !.current_depth = Top.depth,
                                      !.max_depth = Max(@, Top.depth),
                                      !.directories_scanned = @ + 1]
       ELSE /\ stack' = SetTop(stack, [Top EXCEPT !.phase = "files"])
            /\ stats' = [stats EXCEPT !.current_depth = Top.depth,
                                      !.max_depth = Max(@, Top.depth),
                                      !.directories_scanned = @ + 1]
    /\ UNCHANGED <<scan_pc, scanner_running, yielded>>
    /\ ScanQuiet

\* _scan_directory: one turn of "process files first"
FileEntry ==
    /\ scan_pc = "discover"
    /\ stack # <<>>
    /\ Top.phase = "files"
    /\ LET entries == Entries(Top.dir)
           entry == entries[Top.idx]
           next == [Top EXCEPT !.idx = @ + 1]
       IN  IF Top.idx > Len(entries)
           THEN /\ stack' = SetTop(stack, [Top EXCEPT !.phase = "dirs", !.idx = 1])
                /\ UNCHANGED <<scan_pc, yielded, stats, discovered>>
           ELSE IF ~scanner_running
           THEN /\ stack' = Pop(stack)
                /\ UNCHANGED <<scan_pc, yielded, stats, discovered>>
           ELSE IF entry \in TreeFiles /\ ShouldIncludeFile(entry)
           THEN /\ stack' = SetTop(stack, next)
                /\ stats' = [stats EXCEPT !.files_discovered = @ + 1]
                /\ yielded' = entry
                /\ discovered' = Append(discovered, entry)
                /\ scan_pc' = "yielded"
           ELSE /\ stack' = SetTop(stack, next)
                /\ stats' = IF entry \in TreeFiles
                            THEN [stats EXCEPT !.files_skipped = @ + 1] ELSE stats
                /\ UNCHANGED <<scan_pc, yielded, discovered>>
    /\ UNCHANGED <<scanner_running, last_discovered>>
    /\ ScanQuiet

\* the recursion without the is_symlink test
DirEntryFollowsLinks ==
    /\ Undiscovered
    /\ scan_pc = "discover"
    /\ stack # <<>>
    /\ Top.phase = "dirs"
    /\ LET entries == Entries(Top.dir)
           entry == entries[Top.idx]
           next == [Top EXCEPT !.idx = @ + 1]
       IN  IF Top.idx > Len(entries) \/ ~scanner_running
           THEN stack' = Pop(stack)
           ELSE IF IsDir(entry)
           THEN stack' = Append(SetTop(stack, next), Frame(entry, Top.depth + 1))
           ELSE stack' = SetTop(stack, next)
    /\ UNCHANGED <<scan_pc, scanner_running, yielded, stats>>
    /\ ScanQuiet

\* _scan_directory: one turn of "then recurse into subdirectories"
DirEntry ==
    /\ Undiscovered
    /\ scan_pc = "discover"
    /\ stack # <<>>
    /\ Top.phase = "dirs"
    /\ LET entries == Entries(Top.dir)
           entry == entries[Top.idx]
           next == [Top EXCEPT !.idx = @ + 1]
       IN  IF Top.idx > Len(entries) \/ ~scanner_running
           THEN stack' = Pop(stack)
           ELSE IF IsDir(entry) /\ ~IsSymlink(entry)
           THEN stack' = Append(SetTop(stack, next), Frame(entry, Top.depth + 1))
           ELSE stack' = SetTop(stack, next)
    /\ UNCHANGED <<scan_pc, scanner_running, yielded, stats>>
    /\ ScanQuiet

\* the generator is exhausted: scan_project leaves its loop
DiscoveryDone ==
    /\ Undiscovered
    /\ scan_pc = "discover"
    /\ stack = <<>>
    /\ scan_pc' = "final"
    /\ UNCHANGED <<scanner_running, stack, yielded, stats>>
    /\ ScanQuiet

\* scan_project's loop body without the _running check
AnalyzeYieldedNoStopCheck ==
    /\ Undiscovered
    /\ scan_pc = "yielded"
    /\ \E gone \in (IF yielded \in Vanishing THEN BOOLEAN ELSE {FALSE}) :
          IF gone
          THEN /\ stats' = [stats EXCEPT !.files_errored = @ + 1]
               /\ UNCHANGED batch
          ELSE /\ stats' = [stats EXCEPT !.files_processed = @ + 1]
               /\ batch' = Append(batch, AnalyzeFile(yielded))
    /\ scan_pc' = IF Len(batch') >= scan_batch_size THEN "emit" ELSE "discover"
    /\ yielded' = None
    /\ cb_idx' = 1
    /\ UNCHANGED <<db, perf_enabled, consumer_callback, root_exists, scanner_running, stack,
                   emitted, db_creates, db_updates, scans>>

\* scan_project's loop body for one yielded path: the _running check, then
\* _analyze_file under the scanner's own semaphore, then the batch
AnalyzeYielded ==
    /\ Undiscovered
    /\ scan_pc = "yielded"
    /\ IF ~scanner_running
       THEN /\ scan_pc' = "final"
            /\ UNCHANGED <<stats, batch>>
       ELSE /\ \E gone \in (IF yielded \in Vanishing THEN BOOLEAN ELSE {FALSE}) :
                  IF gone
                  THEN /\ stats' = [stats EXCEPT !.files_errored = @ + 1]
                       /\ UNCHANGED batch
                  ELSE /\ stats' = [stats EXCEPT !.files_processed = @ + 1]
                       /\ batch' = Append(batch, AnalyzeFile(yielded))
            /\ scan_pc' = IF Len(batch') >= scan_batch_size THEN "emit" ELSE "discover"
    /\ yielded' = None
    /\ cb_idx' = 1
    /\ UNCHANGED <<db, perf_enabled, consumer_callback, root_exists, scanner_running, stack,
                   emitted, db_creates, db_updates, scans>>

\* the end of the scan without "Process remaining files in batch"
FinalFlushDropsBatch ==
    /\ Undiscovered
    /\ scan_pc = "final"
    /\ scan_pc' = "finish"
    /\ cb_idx' = 1
    /\ UNCHANGED <<db, perf_enabled, consumer_callback, root_exists, scanner_running, stack,
                   yielded, stats, batch, emitted, db_creates, db_updates, scans>>

\* "Process remaining files in batch"
FinalFlush ==
    /\ Undiscovered
    /\ scan_pc = "final"
    /\ scan_pc' = IF batch # <<>> THEN "emit_final" ELSE "finish"
    /\ cb_idx' = 1
    /\ UNCHANGED <<db, perf_enabled, consumer_callback, root_exists, scanner_running, stack,
                   yielded, stats, batch, emitted, db_creates, db_updates, scans>>

\* _save_file_batch, one FileInfo: <<rows, creates, updates>>
SaveFileInfo(acc, file_info) ==
    LET id == GetByPath(acc[1], file_info.relative_path)
    IN  IF id > 0
        THEN IF acc[1][id].content_hash # file_info.content_hash
             THEN <<UpdateRow(acc[1], id, ToDict(file_info)), acc[2], acc[3] + 1>>
             ELSE acc
        ELSE <<CreateRow(acc[1], ToDict(file_info)), acc[2] + 1, acc[3]>>

RECURSIVE SaveFileBatch(_, _)
SaveFileBatch(acc, file_batch) ==
    IF file_batch = <<>> THEN acc
    ELSE SaveFileBatch(SaveFileInfo(acc, Head(file_batch)), Tail(file_batch))

BatchPaths(b) == [i \in 1..Len(b) |-> b[i].relative_path]

\* the batch is about to be saved: scan_project awaits its callback and
\* performance_aware_batch_callback, if there is one, has left its loop
SaveBatchReady ==
    /\ scan_pc \in {"emit", "emit_final"}
    /\ ~consumer_callback
    /\ perf_enabled => (cb_idx > Len(batch) /\ pc[Callback] = "idle")

\* the batch is handed on: performance_aware_batch_callback after its loop,
\* _handle_scan_batch, or _save_file_batch itself
SaveBatch ==
    /\ Undiscovered
    /\ SaveBatchReady
    /\ LET saved == SaveFileBatch(<<db, db_creates, db_updates>>, batch)
       IN  /\ db' = saved[1]
           /\ db_creates' = saved[2]
           /\ db_updates' = saved[3]
    /\ emitted' = Append(emitted, BatchPaths(batch))
    /\ batch' = <<>>
    /\ scan_pc' = IF scan_pc = "emit" THEN "discover" ELSE "finish"
    /\ UNCHANGED <<perf_enabled, consumer_callback, root_exists, scanner_running, stack,
                   yielded, stats, cb_idx, scans>>

\* await batch_callback(batch) with a callback of the consumer's: it returns,
\* or it raises and scan_project re-raises from its except branch
ConsumerCallback ==
    /\ Undiscovered
    /\ scan_pc \in {"emit", "emit_final"}
    /\ consumer_callback
    /\ emitted' = Append(emitted, BatchPaths(batch))
    /\ \E raises \in BOOLEAN :
          IF raises
          THEN /\ scan_pc' = "failed"
               /\ scanner_running' = FALSE
               /\ scans' = scans + 1
               /\ UNCHANGED batch
          ELSE /\ scan_pc' = IF scan_pc = "emit" THEN "discover" ELSE "finish"
               /\ batch' = <<>>
               /\ UNCHANGED <<scanner_running, scans>>
    /\ UNCHANGED <<db, perf_enabled, consumer_callback, root_exists, stack, yielded, stats,
                   cb_idx, db_creates, db_updates>>

\* scan_project returns its stats
ScanReturn ==
    /\ Undiscovered
    /\ scan_pc = "finish"
    /\ scan_pc' = "done"
    /\ scanner_running' = FALSE
    /\ scans' = scans + 1
    /\ UNCHANGED <<db, perf_enabled, consumer_callback, root_exists, stack, yielded, stats,
                   batch, cb_idx, emitted, db_creates, db_updates>>

(***************************************************************************)
(* HubUpdateQueue                                                          *)
(***************************************************************************)
\* HubUpdateQueue(batch_window=10.0, max_retries=3)
max_retries == 3
\* queue_hub_update calls of a behaviour
MaxUpdates == 3

\* HubUpdateQueue.__init__
HubIdle ==
    /\ hub_pending = {}
    /\ hub_processing = FALSE
    /\ hub_current = {}
    /\ hub_timer = FALSE
    /\ hub_retry_timers = 0
    /\ hub_queued = 0

\* queue_hub_update: the entry is appended with retries 0 and
\* _schedule_batch_processing cancels self.timer and arms a new one
QueueHubUpdate ==
    /\ hub_queued < MaxUpdates
    /\ hub_queued' = hub_queued + 1
    /\ hub_pending' = hub_pending \cup {[id |-> hub_queued + 1, retries |-> 0]}
    /\ hub_timer' = TRUE
    /\ UNCHANGED <<hub_processing, hub_current, hub_retry_timers>>

\* _process_batch, its first locked section: nothing is done while another
\* run is processing or when nothing is pending, else the pending updates
\* become the snapshot of this run
ProcessBatchBegin ==
    IF hub_processing \/ hub_pending = {}
    THEN UNCHANGED <<hub_pending, hub_processing, hub_current>>
    ELSE /\ hub_processing' = TRUE
         /\ hub_current' = hub_pending
         /\ hub_pending' = {}

\* _retry_failed_updates: the updates with retries left go back to
\* pending_updates with one more retry and a timer is started for them; the
\* others are dropped
RetryFailedUpdates(updates) ==
    LET retry_updates == {[u EXCEPT !.retries = @ + 1] : u \in {v \in updates :
                                                                  v.retries < max_retries}}
    IN  IF retry_updates # {}
        THEN /\ hub_pending' = hub_pending \cup retry_updates
             /\ hub_retry_timers' = hub_retry_timers + 1
        ELSE UNCHANGED <<hub_pending, hub_retry_timers>>

\* self.timer fires and its thread runs _process_batch
HubTimerFire ==
    /\ hub_timer
    /\ hub_timer' = FALSE
    /\ ProcessBatchBegin
    /\ UNCHANGED <<hub_retry_timers, hub_queued>>

\* a timer of _retry_failed_updates fires and its thread runs _process_batch
HubRetryTimerFire ==
    /\ hub_retry_timers > 0
    /\ hub_retry_timers' = hub_retry_timers - 1
    /\ ProcessBatchBegin
    /\ UNCHANGED <<hub_timer, hub_queued>>

\* _process_batch, from _process_hub_updates_atomic to the finally clause:
\* the snapshot is applied, or it fails and is handed to _retry_failed_updates
ProcessBatchEnd ==
    /\ hub_processing
    /\ \E success \in BOOLEAN :
          IF success
          THEN UNCHANGED <<hub_pending, hub_retry_timers>>
          ELSE RetryFailedUpdates(hub_current)
    /\ hub_current' = {}
    /\ hub_processing' = FALSE
    /\ UNCHANGED <<hub_timer, hub_queued>>

\* AsyncFileScanner.__init__: _paused = False
PauseIdle == scanner_paused = FALSE

\* AsyncFileScanner.pause
ScanPause ==
    /\ scanner_paused' = TRUE
    /\ UNCHANGED scanVars

\* AsyncFileScanner.resume
ScanResume ==
    /\ scanner_paused' = FALSE
    /\ UNCHANGED scanVars

\* AsyncFileScanner.stop
ScanStop ==
    /\ Undiscovered
    /\ scan_pc \notin {"idle", "done", "failed"}
    /\ scanner_running
    /\ scanner_running' = FALSE
    /\ UNCHANGED <<db, perf_enabled, consumer_callback, root_exists, scan_pc, stack, yielded,
                   stats, batch, cb_idx, emitted, db_creates, db_updates, scans>>

InCallback ==
    /\ perf_enabled
    /\ scan_pc \in {"emit", "emit_final"}
    /\ cb_idx <= Len(batch)

\* performance_aware_batch_callback, one file_info: await acquire_worker()
CallbackAcquire ==
    /\ InCallback
    /\ AcquireWorker(Callback)
    /\ UNCHANGED cb_idx

\* the callback's acquire_worker wakes from its paused poll
CallbackPollWake ==
    /\ InCallback
    /\ PollWake(Callback)
    /\ UNCHANGED cb_idx

\* release_worker(file_info.size, False), right after the permit was granted
CallbackRelease ==
    /\ InCallback
    /\ ReleaseWorker(Callback, batch[cb_idx].size, FALSE)
    /\ cb_idx' = cb_idx + 1

\* the except branch: acquire_worker raised, release_worker(file_info.size, True)
CallbackExcept ==
    /\ InCallback
    /\ pc[Callback] \in {"refused", "still_paused"}
    /\ CMRelease
    /\ RecordReleased(batch[cb_idx].size, TRUE)
    /\ pc' = [pc EXCEPT ![Callback] = "idle"]
    /\ cb_idx' = cb_idx + 1
    /\ UNCHANGED <<emergency_triggered, paused, auto_pause_on_high_load,
                   emergency_sample_seen, emergency_notified, qualifying_samples,
                   current_workers, sleeps>>

CallbackQuiet == UNCHANGED <<db, perf_enabled, consumer_callback, root_exists, scan_pc,
                             scanner_running, stack, yielded, stats, batch, emitted,
                             discovered, last_discovered, db_creates, db_updates, scans>>

ScanInit ==
    /\ discovered = <<>>
    /\ last_discovered = <<>>
    /\ perf_enabled \in BOOLEAN
    /\ consumer_callback \in BOOLEAN
    /\ ~(perf_enabled /\ consumer_callback)
    /\ root_exists \in BOOLEAN
    /\ scan_pc = "idle"
    /\ scanner_running = FALSE
    /\ stack = <<>>
    /\ yielded = None
    /\ stats = ZeroStats
    /\ batch = <<>>
    /\ cb_idx = 1
    /\ emitted = <<>>
    /\ db_creates = 0
    /\ db_updates = 0
    /\ scans = 0

ScanIdle ==
    /\ discovered = <<>>
    /\ last_discovered = <<>>
    /\ perf_enabled = FALSE
    /\ consumer_callback = FALSE
    /\ root_exists = TRUE
    /\ scan_pc = "idle"
    /\ scanner_running = FALSE
    /\ stack = <<>>
    /\ yielded = None
    /\ stats = ZeroStats
    /\ batch = <<>>
    /\ cb_idx = 1
    /\ emitted = <<>>
    /\ db_creates = 0
    /\ db_updates = 0
    /\ scans = 0

MonIdle ==
    /\ fs = {}
    /\ db = <<>>
    /\ now = 0
    /\ pending = <<>>
    /\ changes = <<>>
    /\ last_added = <<>>
    /\ coalesced = 0
    /\ mon_running = FALSE
    /\ loop_batch = <<>>
    /\ stop_batch = <<>>
    /\ stop_pc = "idle"

PerfInit ==
    /\ emergency_triggered = FALSE
    /\ paused = FALSE
    /\ auto_pause_on_high_load \in BOOLEAN
    /\ emergency_sample_seen = FALSE
    /\ emergency_notified = [s \in Subscribers |-> 0]
    /\ qualifying_samples = 0
    /\ tracker = [files_processed |-> 0, errors_count |-> 0]
    /\ current_workers = initial_workers
    /\ sems = <<Semaphore(initial_workers)>>
    /\ pc = [t \in Tasks |-> "idle"]
    /\ sleeps = [t \in Tasks |-> 0]

PerfNext ==
    \/ (\E m \in MemSamples, c \in CpuSamples : CheckLimits(m, c))
          /\ UNCHANGED <<monVars, scanVars, samplerVars, sweepVars, pauseVars, hubVars>>
    \/ ResetPause /\ UNCHANGED <<monVars, scanVars, samplerVars, sweepVars, pauseVars, hubVars>>
    \/ (\E c \in CpuPct, m \in MemPct, f \in FilesPerSecond :
           AdjustConcurrency(c, m, ErrorRate(tracker), f))
          /\ UNCHANGED <<monVars, scanVars, samplerVars, sweepVars, pauseVars, hubVars>>
    \/ (\E t \in Workers : AcquireWorker(t))
          /\ UNCHANGED <<monVars, scanVars, samplerVars, sweepVars, pauseVars, hubVars>>
    \/ (\E t \in Workers : PollWake(t))
          /\ UNCHANGED <<monVars, scanVars, samplerVars, sweepVars, pauseVars, hubVars>>
    \/ (\E t \in Workers : Resume(t))
          /\ UNCHANGED <<monVars, scanVars, samplerVars, sweepVars, pauseVars, hubVars>>
    \/ (\E t \in Workers, size \in FileSizes, error \in BOOLEAN :
           /\ size > 0 => tracker.files_processed < MaxTracked
           /\ ReleaseWorker(t, size, error))
                 /\ UNCHANGED <<monVars, scanVars, samplerVars, sweepVars, pauseVars, hubVars>>
    \/ (\E t \in Workers : Raised(t))
          /\ UNCHANGED <<monVars, scanVars, samplerVars, sweepVars, pauseVars, hubVars>>

InitPerf == PerfInit /\ MonIdle /\ ScanIdle /\ SamplerIdle /\ SweepIdle /\ PauseIdle /\ HubIdle

SpecPerf == InitPerf /\ [][PerfNext]_vars

\* the event loop runs every task that is ready, and a holder of a slot goes on
\* to its release_worker
PerfFairness ==
    \A t \in Workers :
        /\ WF_vars(Resume(t)
                   /\ UNCHANGED <<monVars, scanVars, samplerVars, sweepVars, pauseVars, hubVars>>)
        /\ WF_vars(ReleaseWorker(t, 0, FALSE)
                   /\ UNCHANGED <<monVars, scanVars, samplerVars, sweepVars, pauseVars, hubVars>>)

SpecPerfLive == InitPerf /\ [][PerfNext]_vars /\ PerfFairness

PerfIdle ==
    /\ emergency_triggered = FALSE
    /\ paused = FALSE
    /\ auto_pause_on_high_load = TRUE
    /\ emergency_sample_seen = FALSE
    /\ emergency_notified = [s \in Subscribers |-> 0]
    /\ qualifying_samples = 0
    /\ tracker = [files_processed |-> 0, errors_count |-> 0]
    /\ current_workers = initial_workers
    /\ sems = <<Semaphore(initial_workers)>>
    /\ pc = [t \in Tasks |-> "idle"]
    /\ sleeps = [t \in Tasks |-> 0]

\* the monitor with its handler called on the thread of the event loop
MonNext ==
    \/ (\E p \in MonPaths : FsCreate(p, "loop"))
          /\ UNCHANGED <<perfVars, scanVars, samplerVars, sweepVars, pauseVars, hubVars>>
    \/ (\E p \in MonPaths : FsModify(p, "loop"))
          /\ UNCHANGED <<perfVars, scanVars, samplerVars, sweepVars, pauseVars, hubVars>>
    \/ (\E p \in MonPaths : FsDelete(p, "loop"))
          /\ UNCHANGED <<perfVars, scanVars, samplerVars, sweepVars, pauseVars, hubVars>>
    \/ (\E p \in MonPaths, q \in MonPaths : FsMove(p, q, "loop"))
          /\ UNCHANGED <<perfVars, scanVars, samplerVars, sweepVars, pauseVars, hubVars>>
    \/ Tick /\ UNCHANGED <<perfVars, scanVars, samplerVars, sweepVars, pauseVars, hubVars>>
    \/ HandleEvent /\ UNCHANGED <<perfVars, scanVars, samplerVars, sweepVars, pauseVars, hubVars>>
    \/ LoopPoll /\ UNCHANGED <<perfVars, scanVars, samplerVars, sweepVars, pauseVars, hubVars>>
    \/ LoopProcess /\ UNCHANGED <<perfVars, scanVars, samplerVars, sweepVars, pauseVars, hubVars>>
    \/ StopFlush /\ UNCHANGED <<perfVars, scanVars, samplerVars, sweepVars, pauseVars, hubVars>>
    \/ StopProcess /\ UNCHANGED <<perfVars, scanVars, samplerVars, sweepVars, pauseVars, hubVars>>

InitMon == MonInit /\ PerfIdle /\ ScanIdle /\ SamplerIdle /\ SweepIdle /\ PauseIdle /\ HubIdle

SpecMon == InitMon /\ [][MonNext]_vars

\* the monitor with its handler called by the observer as well
WatchNext ==
    \/ (\E p \in MonPaths, thread \in Threads : FsCreate(p, thread))
          /\ UNCHANGED <<perfVars, scanVars, samplerVars, sweepVars, pauseVars, hubVars>>
    \/ (\E p \in MonPaths, thread \in Threads : FsModify(p, thread))
          /\ UNCHANGED <<perfVars, scanVars, samplerVars, sweepVars, pauseVars, hubVars>>
    \/ (\E p \in MonPaths, thread \in Threads : FsDelete(p, thread))
          /\ UNCHANGED <<perfVars, scanVars, samplerVars, sweepVars, pauseVars, hubVars>>
    \/ (\E p \in MonPaths, q \in MonPaths, thread \in Threads : FsMove(p, q, thread))
          /\ UNCHANGED <<perfVars, scanVars, samplerVars, sweepVars, pauseVars, hubVars>>
    \/ Tick /\ UNCHANGED <<perfVars, scanVars, samplerVars, sweepVars, pauseVars, hubVars>>
    \/ HandleEvent /\ UNCHANGED <<perfVars, scanVars, samplerVars, sweepVars, pauseVars, hubVars>>
    \/ LoopPoll /\ UNCHANGED <<perfVars, scanVars, samplerVars, sweepVars, pauseVars, hubVars>>
    \/ LoopProcess /\ UNCHANGED <<perfVars, scanVars, samplerVars, sweepVars, pauseVars, hubVars>>
    \/ StopFlush /\ UNCHANGED <<perfVars, scanVars, samplerVars, sweepVars, pauseVars, hubVars>>
    \/ StopProcess /\ UNCHANGED <<perfVars, scanVars, samplerVars, sweepVars, pauseVars, hubVars>>

SpecWatch == InitMon /\ [][WatchNext]_vars

\* the ConcurrencyManager and its callers while the limiter stays quiet
AdjustNext ==
    \/ (\E c \in CpuPct, m \in MemPct, f \in FilesPerSecond :
           AdjustConcurrency(c, m, ErrorRate(tracker), f))
          /\ UNCHANGED <<monVars, scanVars, samplerVars, sweepVars, pauseVars, hubVars>>
    \/ (\E t \in Workers : AcquireWorker(t))
          /\ UNCHANGED <<monVars, scanVars, samplerVars, sweepVars, pauseVars, hubVars>>
    \/ (\E t \in Workers : Resume(t))
          /\ UNCHANGED <<monVars, scanVars, samplerVars, sweepVars, pauseVars, hubVars>>
    \/ (\E t \in Workers, size \in FileSizes, error \in BOOLEAN :
           /\ size > 0 => tracker.files_processed < MaxTracked
           /\ ReleaseWorker(t, size, error))
                 /\ UNCHANGED <<monVars, scanVars, samplerVars, sweepVars, pauseVars, hubVars>>

SpecAdjust == InitPerf /\ [][AdjustNext]_vars

\* a change the buffer holds for a path
BufferedChange(p, kind, time) ==
    [event |-> [event_type |-> kind, file_path |-> p,
                old_path |-> IF kind = "moved" THEN CHOOSE q \in MonPaths : q # p ELSE None],
     last_change_time |-> time]

\* the monitor runs, with an older change of one path and a younger change of
\* the other in its buffer
SweepInit ==
    /\ fs \in SUBSET MonPaths
    /\ \E rows \in SUBSET MonPaths : db = ScannedRows(rows)
    /\ now = 1
    /\ pending = <<>>
    /\ \E k1 \in 1..Len(Kinds), k2 \in 1..Len(Kinds) :
          changes = <<BufferedChange("a.py", Kinds[k1], 0),
                      BufferedChange("b.bin", Kinds[k2], 1)>>
    /\ last_added = [p \in BufferedPaths(changes) |->
                        [event |-> changes[BufferIndex(changes, p)].event,
                         time |-> changes[BufferIndex(changes, p)].last_change_time,
                         n |-> 1]]
    /\ coalesced = 0
    /\ mon_running = TRUE
    /\ loop_batch = <<>>
    /\ stop_batch = <<>>
    /\ stop_pc = "idle"

\* the sweeps of the loop and of stop() over a buffer that holds changes
SweepNext ==
    \/ Tick /\ UNCHANGED <<perfVars, scanVars, samplerVars, sweepVars, pauseVars, hubVars>>
    \/ LoopPoll /\ UNCHANGED <<perfVars, scanVars, samplerVars, sweepVars, pauseVars, hubVars>>
    \/ StopFlush /\ UNCHANGED <<perfVars, scanVars, samplerVars, sweepVars, pauseVars, hubVars>>
    \/ (\E t \in SweepTasks : ProcessChangesEnter(t))
          /\ UNCHANGED <<perfVars, scanVars, samplerVars, pauseVars, hubVars>>
    \/ (\E t \in SweepTasks : LockWake(t))
          /\ UNCHANGED <<perfVars, scanVars, samplerVars, pauseVars, hubVars>>
    \/ (\E t \in SweepTasks : ProcessChangesStage(t))
          /\ UNCHANGED <<perfVars, scanVars, samplerVars, pauseVars, hubVars>>

InitSweep == SweepInit /\ PerfIdle /\ ScanIdle /\ SamplerIdle /\ SweepIdle /\ PauseIdle /\ HubIdle

SpecSweep == InitSweep /\ [][SweepNext]_vars

\* the limiter's ResourceMonitor, started and stopped at any time
SamplerNext ==
    \/ ResourceMonitorStart
          /\ UNCHANGED <<perfVars, monVars, scanVars, sweepVars, pauseVars, hubVars>>
    \/ ResourceMonitorStop
          /\ UNCHANGED <<perfVars, monVars, scanVars, sweepVars, pauseVars, hubVars>>
    \/ (\E l \in 1..MaxLoops : MonitorLoop(l))
          /\ UNCHANGED <<monVars, scanVars, sweepVars, pauseVars, hubVars>>
    \/ ResetPause /\ UNCHANGED <<monVars, scanVars, samplerVars, sweepVars, pauseVars, hubVars>>

InitSampler == PerfInit /\ MonIdle /\ ScanIdle /\ SamplerIdle /\ SweepIdle /\ PauseIdle /\ HubIdle

SpecSampler == InitSampler /\ [][SamplerNext]_vars

\* the scanner specification: the tree exists, nothing is watched
ScanFsInit ==
    /\ fs = TreeFiles
    /\ db = <<>>
    /\ now = 0
    /\ pending = <<>>
    /\ changes = <<>>
    /\ last_added = <<>>
    /\ coalesced = 0
    /\ mon_running = FALSE
    /\ loop_batch = <<>>
    /\ stop_batch = <<>>
    /\ stop_pc = "idle"

ScanNext ==
    \/ ScanStart /\ UNCHANGED <<perfVars, monRest, samplerVars, sweepVars, pauseVars, hubVars>>
    \/ EnterDirectory /\ UNCHANGED <<perfVars, monRest, samplerVars, sweepVars, pauseVars, hubVars>>
    \/ FileEntry /\ UNCHANGED <<perfVars, monRest, samplerVars, sweepVars, pauseVars, hubVars>>
    \/ DirEntry /\ UNCHANGED <<perfVars, monRest, samplerVars, sweepVars, pauseVars, hubVars>>
    \/ DiscoveryDone /\ UNCHANGED <<perfVars, monRest, samplerVars, sweepVars, pauseVars, hubVars>>
    \/ AnalyzeYielded /\ UNCHANGED <<perfVars, monRest, samplerVars, sweepVars, pauseVars, hubVars>>
    \/ FinalFlush /\ UNCHANGED <<perfVars, monRest, samplerVars, sweepVars, pauseVars, hubVars>>
    \/ SaveBatch /\ UNCHANGED <<perfVars, monRest, samplerVars, sweepVars, pauseVars, hubVars>>
    \/ ConsumerCallback
          /\ UNCHANGED <<perfVars, monRest, samplerVars, sweepVars, pauseVars, hubVars>>
    \/ ScanReturn /\ UNCHANGED <<perfVars, monRest, samplerVars, sweepVars, pauseVars, hubVars>>
    \/ ScanStop /\ UNCHANGED <<perfVars, monRest, samplerVars, sweepVars, pauseVars, hubVars>>
    \/ CallbackAcquire /\ CallbackQuiet
          /\ UNCHANGED <<monRest, samplerVars, sweepVars, pauseVars, hubVars>>
    \/ CallbackPollWake /\ CallbackQuiet
          /\ UNCHANGED <<monRest, samplerVars, sweepVars, pauseVars, hubVars>>
    \/ CallbackRelease /\ CallbackQuiet
          /\ UNCHANGED <<monRest, samplerVars, sweepVars, pauseVars, hubVars>>
    \/ CallbackExcept /\ CallbackQuiet
          /\ UNCHANGED <<monRest, samplerVars, sweepVars, pauseVars, hubVars>>
    \/ (\E m \in MemSamples, c \in CpuSamples : CheckLimits(m, c))
          /\ UNCHANGED <<monVars, scanVars, samplerVars, sweepVars, pauseVars, hubVars>>
    \/ ResetPause /\ UNCHANGED <<monVars, scanVars, samplerVars, sweepVars, pauseVars, hubVars>>

InitScan == ScanInit /\ ScanFsInit /\ PerfIdle /\ SamplerIdle /\ SweepIdle /\ PauseIdle /\ HubIdle

SpecScan == InitScan /\ [][ScanNext]_vars

\* a scan that saves its batches itself or hands them to the caller's
\* callback, with pause() and resume() called at any time
PauseNext ==
    \/ ScanStart /\ UNCHANGED <<perfVars, monRest, samplerVars, sweepVars, pauseVars, hubVars>>
    \/ EnterDirectory /\ UNCHANGED <<perfVars, monRest, samplerVars, sweepVars, pauseVars, hubVars>>
    \/ FileEntry /\ UNCHANGED <<perfVars, monRest, samplerVars, sweepVars, pauseVars, hubVars>>
    \/ DirEntry /\ UNCHANGED <<perfVars, monRest, samplerVars, sweepVars, pauseVars, hubVars>>
    \/ DiscoveryDone /\ UNCHANGED <<perfVars, monRest, samplerVars, sweepVars, pauseVars, hubVars>>
    \/ AnalyzeYielded /\ UNCHANGED <<perfVars, monRest, samplerVars, sweepVars, pauseVars, hubVars>>
    \/ FinalFlush /\ UNCHANGED <<perfVars, monRest, samplerVars, sweepVars, pauseVars, hubVars>>
    \/ SaveBatch /\ UNCHANGED <<perfVars, monRest, samplerVars, sweepVars, pauseVars, hubVars>>
    \/ ConsumerCallback
          /\ UNCHANGED <<perfVars, monRest, samplerVars, sweepVars, pauseVars, hubVars>>
    \/ ScanReturn /\ UNCHANGED <<perfVars, monRest, samplerVars, sweepVars, pauseVars, hubVars>>
    \/ ScanPause /\ UNCHANGED <<perfVars, monVars, samplerVars, sweepVars, hubVars>>
    \/ ScanResume /\ UNCHANGED <<perfVars, monVars, samplerVars, sweepVars, hubVars>>

\* the _analyze_file calls of the monitor's scanner that reconciling one change
\* makes: _process_created_files for a file that exists, _process_modified_files
\* for a file that exists (with or without a row), _process_moved_files for a
\* row whose new path exists
Analyses(d, change) ==
    CASE change.event_type = "created" -> IF change.file_path \in fs THEN 1 ELSE 0
      [] change.event_type = "modified" ->
            IF change.file_path \in fs /\ GetByPath(d, change.file_path) # -1 THEN 1 ELSE 0
      [] change.event_type = "moved" ->
            IF GetByPath(d, change.old_path) > 0 /\ change.file_path \in fs THEN 1 ELSE 0
      [] OTHER -> 0

RECURSIVE AnalysesOfKind(_, _, _)
AnalysesOfKind(d, ready, kind) ==
    IF ready = <<>> THEN 0
    ELSE IF Head(ready).event_type = kind
         THEN Analyses(d, Head(ready))
              + AnalysesOfKind(ProcessOne(d, Head(ready)), Tail(ready), kind)
         ELSE AnalysesOfKind(d, Tail(ready), kind)

\* the _analyze_file calls of one sweep of _process_changes
SweepAnalyses(d, ready) ==
    LET d1 == ProcessKind(d, ready, "created")
        d2 == ProcessKind(d1, ready, "modified")
        d3 == ProcessKind(d2, ready, "deleted")
    IN  AnalysesOfKind(d, ready, "created") + AnalysesOfKind(d1, ready, "modified")
        + AnalysesOfKind(d3, ready, "moved")

\* the loop's sweep on the monitor's own scanner: every _analyze_file call
\* counts in the ScannerStats object the scanner holds at that time
ReconcileSweep ==
    /\ LoopProcess
    /\ stats' = [stats EXCEPT !.files_processed = @ + SweepAnalyses(db, loop_batch)]
    /\ UNCHANGED <<perf_enabled, consumer_callback, root_exists, scan_pc, scanner_running,
                   stack, yielded, batch, cb_idx, emitted, discovered, last_discovered,
                   db_creates, db_updates, scans>>

\* the monitor runs on the tree and its loop has taken one ready change
SharedInit ==
    /\ fs = TreeFiles
    /\ db = <<>>
    /\ now = 0
    /\ pending = <<>>
    /\ changes = <<>>
    /\ last_added = <<>>
    /\ coalesced = 0
    /\ mon_running = TRUE
    /\ \E kind \in {"created", "modified", "deleted"}, p \in {"a.py", "src/q.sql"} :
          loop_batch = <<[event_type |-> kind, file_path |-> p, old_path |-> None]>>
    /\ stop_batch = <<>>
    /\ stop_pc = "idle"

\* a full scan on the scanner of a running monitor (trigger_full_scan) next
\* to the sweep of the monitor's loop
SharedNext ==
    \/ ScanStart /\ UNCHANGED <<perfVars, monRest, samplerVars, sweepVars, pauseVars, hubVars>>
    \/ EnterDirectory /\ UNCHANGED <<perfVars, monRest, samplerVars, sweepVars, pauseVars, hubVars>>
    \/ FileEntry /\ UNCHANGED <<perfVars, monRest, samplerVars, sweepVars, pauseVars, hubVars>>
    \/ DirEntry /\ UNCHANGED <<perfVars, monRest, samplerVars, sweepVars, pauseVars, hubVars>>
    \/ DiscoveryDone /\ UNCHANGED <<perfVars, monRest, samplerVars, sweepVars, pauseVars, hubVars>>
    \/ AnalyzeYielded /\ UNCHANGED <<perfVars, monRest, samplerVars, sweepVars, pauseVars, hubVars>>
    \/ FinalFlush /\ UNCHANGED <<perfVars, monRest, samplerVars, sweepVars, pauseVars, hubVars>>
    \/ SaveBatch /\ UNCHANGED <<perfVars, monRest, samplerVars, sweepVars, pauseVars, hubVars>>
    \/ ScanReturn /\ UNCHANGED <<perfVars, monRest, samplerVars, sweepVars, pauseVars, hubVars>>
    \/ ReconcileSweep /\ UNCHANGED <<perfVars, samplerVars, sweepVars, pauseVars, hubVars>>

InitShared ==
    /\ ScanInit /\ ~perf_enabled /\ ~consumer_callback /\ root_exists
    /\ SharedInit /\ PerfIdle /\ SamplerIdle /\ SweepIdle /\ PauseIdle /\ HubIdle

SpecShared == InitShared /\ [][SharedNext]_vars

\* the hub update queue: updates are queued, timers fire, batches end
HubNext ==
    \/ QueueHubUpdate
          /\ UNCHANGED <<perfVars, monVars, scanVars, samplerVars, sweepVars, pauseVars>>
    \/ HubTimerFire
          /\ UNCHANGED <<perfVars, monVars, scanVars, samplerVars, sweepVars, pauseVars>>
    \/ HubRetryTimerFire
          /\ UNCHANGED <<perfVars, monVars, scanVars, samplerVars, sweepVars, pauseVars>>
    \/ ProcessBatchEnd
          /\ UNCHANGED <<perfVars, monVars, scanVars, samplerVars, sweepVars, pauseVars>>

InitHub ==
    /\ PerfIdle /\ MonIdle /\ ScanIdle /\ SamplerIdle /\ SweepIdle /\ PauseIdle
    /\ HubIdle

\* an armed timer fires and a batch run ends
HubFairness ==
    /\ WF_vars(HubTimerFire
               /\ UNCHANGED <<perfVars, monVars, scanVars, samplerVars, sweepVars, pauseVars>>)
    /\ WF_vars(HubRetryTimerFire
               /\ UNCHANGED <<perfVars, monVars, scanVars, samplerVars, sweepVars, pauseVars>>)
    /\ WF_vars(ProcessBatchEnd
               /\ UNCHANGED <<perfVars, monVars, scanVars, samplerVars, sweepVars, pauseVars>>)

SpecHub == InitHub /\ [][HubNext]_vars /\ HubFairness

InitPause ==
    /\ ScanInit /\ ~perf_enabled /\ ScanFsInit
    /\ PerfIdle /\ SamplerIdle /\ SweepIdle /\ PauseIdle /\ HubIdle

SpecPause == InitPause /\ [][PauseNext]_vars

\* a resumed generator runs on: _scan_directory has no await between two yields
ScanFairness ==
    WF_vars((EnterDirectory \/ FileEntry \/ DirEntry \/ DiscoveryDone)
            /\ UNCHANGED <<perfVars, monRest, samplerVars, sweepVars, pauseVars, hubVars>>)

SpecScanLive == InitScan /\ [][ScanNext]_vars /\ ScanFairness

(***************************************************************************)
(* Claims about the performance trio                                       *)
(***************************************************************************)
Granted(t) == pc[t] # "holding" /\ pc'[t] = "holding"

\* C1: a worker slot is granted only while the number of slots currently held
\* is below current_workers, under any interleaving of acquire, release,
\* scale-up and scale-down.
C1_GrantOnlyBelowCurrentWorkers ==
    [][\A t \in Tasks : Granted(t) => Held < current_workers]_vars

\* C2: once the emergency state is latched no acquire_worker() call is granted
\* a slot, whether it started after the latch or was already waiting inside
\* acquire_worker when the latch happened.
C2_NoGrantAfterEmergency ==
    [][emergency_triggered => \A t \in Tasks : ~Granted(t)]_vars

\* C3: after a sample above emergency_memory_limit_mb has been evaluated, every
\* acquire_worker() call started afterwards fails at once with the refusal,
\* without waiting and without touching the manager's permits.
C3_RefusedAfterEmergencySample ==
    [][\A t \in Tasks :
          (emergency_sample_seen /\ pc[t] = "idle" /\ pc'[t] # "idle")
             => (pc'[t] = "refused" /\ sems' = sems)]_vars

C3_Witness ==
    emergency_sample_seen /\ \E t \in Tasks : pc[t] = "refused"

(***************************************************************************)
(* Claims about the change buffer and the file monitor                     *)
(***************************************************************************)
\* C5: when FileMonitor.stop() has returned no change is lost: the change
\* buffer is empty and no event is added to it after the final flush.
C5_NothingBufferedAfterStop ==
    stop_pc = "returned" => changes = <<>>

Returned(ready, p) == {i \in 1..Len(ready) : ready[i].file_path = p}

\* C6: events on one path closer together than the debounce window collapse:
\* get_ready_changes returns a path exactly once, not before buffer_time has
\* passed since its last event, carrying the most recent event, and removes it
\* from the buffer; a path whose last event is younger stays buffered.
C6_DebounceLatestWins ==
    [][(loop_batch = <<>> /\ loop_batch' # <<>>) =>
          /\ \A i \in 1..Len(loop_batch') : loop_batch'[i].file_path \in DOMAIN last_added
          /\ \A p \in DOMAIN last_added :
                IF now - last_added[p].time >= buffer_time
                THEN /\ Cardinality(Returned(loop_batch', p)) = 1
                     /\ \A i \in Returned(loop_batch', p) :
                           loop_batch'[i] = last_added[p].event
                     /\ p \notin BufferedPaths(changes')
                ELSE /\ Returned(loop_batch', p) = {}
                     /\ p \in BufferedPaths(changes')]_vars

C6_Witness ==
    loop_batch # <<>> /\ coalesced = 2

HandlerRuns == pending # <<>> /\ pending' = Tail(pending)

HasRow(p) == GetByPath(db, p) > 0

Buffered(buf, p, kind) ==
    \E i \in 1..Len(buf) :
       buf[i].event.file_path = p /\ buf[i].event.event_type = kind

\* C7: every Deleted notification for a file under the root that passes the
\* pattern rules and has a row is buffered by the monitor (to be reconciled by
\* marking the row deleted).
C7_DeletedIsBuffered ==
    [][(/\ HandlerRuns
        /\ Head(pending).kind = "deleted"
        /\ Head(pending).src_path \notin ExcludedPaths
        /\ HasRow(Head(pending).src_path))
          => Buffered(changes', Head(pending).src_path, "deleted")]_vars

InScope(p) == p \in fs /\ p \notin ExcludedPaths

\* the sweep of one Moved change from A (the notification's src_path, kept in
\* file_path) to B (its dest_path, kept in old_path) does what C8 says
MovedSweepRight(ready) ==
    (Len(ready) = 1 /\ ready[1].event_type = "moved" /\ HasRow(ready[1].file_path))
       => LET id == GetByPath(db, ready[1].file_path)
              B == ready[1].old_path
          IN  IF InScope(B)
              THEN db'[id].relative_path = B
              ELSE db'[id] = [db[id] EXCEPT !.status = "deleted"]

\* C8: a Moved notification from A to B whose file has a row reaches
\* reconciliation, which finds the row by the old path A; with B in scope the
\* row ends up describing B, with B out of scope the row is only marked deleted.
C8_MovedFollowsTheFile ==
    [][/\ (/\ HandlerRuns
           /\ Head(pending).kind = "moved"
           /\ Head(pending).src_path \notin ExcludedPaths
           /\ HasRow(Head(pending).src_path))
             => Buffered(changes', Head(pending).src_path, "moved")
       /\ (loop_batch # <<>> /\ loop_batch' = <<>>) => MovedSweepRight(loop_batch)
       /\ (stop_batch # <<>> /\ stop_batch' = <<>>) => MovedSweepRight(stop_batch)]_vars

(***************************************************************************)
(* Claims about the scan                                                   *)
(***************************************************************************)
\* a step of scan_project in which _analyze_file runs
AnalysisStarts == stats'.files_processed = stats.files_processed + 1

\* C4: with a ScannerPerformanceManager in place, _analyze_file starts only
\* while the scan holds a permit obtained by a successful acquire_worker()
C4_AnalysisHoldsPermit ==
    [][(perf_enabled /\ AnalysisStarts) => pc[Callback] = "holding"]_vars

\* C9: once files_discovered exceeds emergency_stop_file_count, no further
\* file is discovered for the rest of that scan
C9_NoDiscoveryPastLimit ==
    [][(scan_pc \notin {"idle", "done", "failed"}
          /\ stats.files_discovered > emergency_stop_file_count)
       => stats'.files_discovered = stats.files_discovered]_vars

\* C10: scanning the unchanged tree again writes nothing for a file whose
\* record an earlier scan persisted: _save_file_batch issues no update
C10_RescanWritesNothing == db_updates = 0

\* the files a directory lists
FilesIn(d) == {f \in TreeFiles : \E i \in 1..Len(Entries(d)) : Entries(d)[i] = f}

\* the scan turns away from a directory that an exclude pattern matches
ExcludedDirectoryPassed ==
    /\ scan_pc = "discover"
    /\ stack # <<>>
    /\ Top.phase = "enter"
    /\ Top.depth <= max_directory_depth
    /\ stats.files_discovered <= emergency_stop_file_count
    /\ ~ShouldIncludeDirectory(Top.dir)
    /\ stack' = Pop(stack)

\* C11: a file left out by the pattern rules is counted in files_skipped, also
\* when it is left out because it lies under an excluded directory: passing
\* such a directory adds its files to files_skipped
C11_ExcludedFilesAreSkipped ==
    [][ExcludedDirectoryPassed
       => stats'.files_skipped = stats.files_skipped + Cardinality(FilesIn(Top.dir))]_vars

\* C12: however many samples exceed the emergency memory ceiling, every
\* subscriber of the limiter has received the emergency notification exactly
\* once as soon as one such sample was evaluated, and never before
C12_EmergencyNotifiedOnce ==
    \A s \in Subscribers :
        emergency_notified[s] = IF qualifying_samples > 0 THEN 1 ELSE 0

C12_Witness ==
    /\ qualifying_samples >= 2
    /\ \A s \in Subscribers : emergency_notified[s] = 1

\* C13: current_workers stays within [1, max_workers] whatever adjustments
\* are made
C13_CurrentWorkersInRange == current_workers \in 1..max_workers

\* the ceiling was reached again after a scale-down
C13_Witness == current_workers = max_workers /\ Len(sems) > 1

\* C14: an exception raised by a consumer callback never aborts the loop that
\* called it: scan_project is not ended by a raising batch callback
C14_CallbackFailureDoesNotAbort == scan_pc # "failed"

\* C15: scan_project on a root path that does not exist returns no stats: it
\* neither reaches its final status update nor returns
C15_MissingRootIsFatal == ~root_exists => scan_pc \notin {"finish", "done"}

\* scan_project analyzes a discovered file whose content cannot be read
AnalysisOfUnreadable ==
    /\ scan_pc = "yielded"
    /\ scanner_running
    /\ yielded \in Unreadable
    /\ yielded' = None

\* C16: a stat, hash or encoding failure on one file counts one in
\* files_errored and puts no record of that file in the batch
C16_AnalysisFailureIsCounted ==
    [][AnalysisOfUnreadable
       => (stats'.files_errored = stats.files_errored + 1 /\ batch' = batch)]_vars

\* C17: a call waiting in the paused poll fails with the still-paused
\* condition only if the limiter is still paused: a pause that was reset
\* before the bound elapsed lets the call go on to admission
C17_StillPausedOnlyWhilePaused ==
    [][\A t \in Tasks :
          (pc[t] = "sleeping" /\ pc'[t] = "still_paused") => paused]_vars

\* a caller's release_worker returns its slot
Released(t) == pc[t] = "holding" /\ pc'[t] = "idle"

\* C18: every release_worker(size, error) call feeds the tracker, for every
\* size >= 0: files_processed grows by one
C18_ReleaseFeedsTracker ==
    [][\A t \in Tasks :
          Released(t) => tracker'.files_processed = tracker.files_processed + 1]_vars

\* the directory that lists an entry
ParentOf(e) == CHOOSE d \in TreeDirs : \E i \in 1..Len(Entries(d)) : Entries(d)[i] = e

RECURSIVE AncestorsOf(_)
AncestorsOf(e) ==
    IF e = Root THEN {} ELSE {ParentOf(e)} \cup AncestorsOf(ParentOf(e))

\* no file of a subdirectory of D comes before a file of D itself
FilesBeforeSubdirectories(paths) ==
    \A i, j \in 1..Len(paths) :
        i < j => ParentOf(paths[j]) \notin AncestorsOf(ParentOf(paths[i]))

\* two scans agree on the paths they both got to
SameOrder(first, second) ==
    \A i \in 1..Min(Len(first), Len(second)) : first[i] = second[i]

C20_HashOnlyForTextLike ==
    \A i \in 1..Len(batch) :
        (batch[i].content_hash # None \/ batch[i].encoding # None)
            => batch[i].file_type \in TextLike

\* a hashed code file has been handed on and the batch being filled holds a
\* file of another category
C20_Witness ==
    /\ \E e \in 1..Len(emitted) : \E k \in 1..Len(emitted[e]) :
            /\ AnalyzeFile(emitted[e][k]).file_type \in TextLike
            /\ AnalyzeFile(emitted[e][k]).content_hash = Sha256(emitted[e][k])
            /\ AnalyzeFile(emitted[e][k]).encoding # None
    /\ \E i \in 1..Len(batch) :
            /\ batch[i].file_type \notin TextLike
            /\ batch[i].content_hash = None
            /\ batch[i].encoding = None

\* C21: an acquire() that blocked because no slot was free is eventually
\* granted, given that every holder eventually releases its slot, under every
\* interleaving with scale-up and scale-down
C21_BlockedIsEventuallyGranted ==
    \A t \in Workers : (pc[t] = "blocked") ~> (pc[t] = "holding")

\* C22: every notification of a change under the watched root that the
\* observer delivers while the monitor runs leaves a task running _handle_event
\* on the event loop: none is dropped
C22_NotificationReachesTheLoop ==
    [][(mon_running /\ fs' # fs) =>
          /\ Len(pending') = Len(pending) + 1
          /\ pending'[Len(pending')].src_path \in (fs \ fs') \cup (fs' \ fs)]_vars

\* C23: for any sequence of start() and stop() calls of the ResourceMonitor,
\* a stop followed by a start before the old loop wakes included, at most one
\* sampling loop appends samples to the history
C23_OneSamplingLoop ==
    Cardinality(sample_writers) <= 1

\* the conditions as C24 words them
C24_Increment(cpu, mem, err) ==
    cpu < 70 /\ mem < 80 /\ err < 5 /\ current_workers < max_workers

C24_Decrement(cpu, mem, err, fps) ==
    (cpu > 90 \/ mem > 90 \/ err > 10 \/ fps < 1) /\ current_workers > 1

C24_ByAtMostOne ==
    current_workers' \in {current_workers - 1, current_workers, current_workers + 1}

\* C24 as worded: at each adjustment current_workers changes by at most one;
\* it is incremented when CPU<70, memory<80, error rate<5% and it is below
\* max_workers; it is decremented whenever CPU>90, memory>90, error rate>10% or
\* the throughput is below 1 file/s, provided it is above 1; otherwise it is
\* unchanged.
C24_AdjustmentAsWorded ==
    [][\A c \in CpuPct, m \in MemPct, f \in FilesPerSecond :
          AdjustConcurrency(c, m, ErrorRate(tracker), f) =>
             /\ C24_ByAtMostOne
             /\ C24_Increment(c, m, ErrorRate(tracker))
                   => current_workers' = current_workers + 1
             /\ C24_Decrement(c, m, ErrorRate(tracker), f)
                   => current_workers' = current_workers - 1
             /\ (~C24_Increment(c, m, ErrorRate(tracker))
                   /\ ~C24_Decrement(c, m, ErrorRate(tracker), f))
                   => current_workers' = current_workers]_vars

\* C24, amended: the increment has precedence; current_workers is decremented
\* when the conditions of the decrement hold and those of the increment do not.
C24_IncrementHasPrecedence ==
    [][\A c \in CpuPct, m \in MemPct, f \in FilesPerSecond :
          AdjustConcurrency(c, m, ErrorRate(tracker), f) =>
             /\ C24_ByAtMostOne
             /\ C24_Increment(c, m, ErrorRate(tracker))
                   => current_workers' = current_workers + 1
             /\ (~C24_Increment(c, m, ErrorRate(tracker))
                   /\ C24_Decrement(c, m, ErrorRate(tracker), f))
                   => current_workers' = current_workers - 1
             /\ (~C24_Increment(c, m, ErrorRate(tracker))
                   /\ ~C24_Decrement(c, m, ErrorRate(tracker), f))
                   => current_workers' = current_workers]_vars

\* the manager was scaled down and then up past its initial number of workers
C24_Witness ==
    Len(sems) > 1 /\ current_workers > initial_workers

\* C25: for each sample the limiter evaluates its thresholds in priority
\* order. A sample above the emergency memory ceiling is handled by the
\* emergency branch only: no warning and no pause for it. A sample whose only
\* exceeded threshold is the soft memory ceiling sends a warning and changes
\* neither the emergency nor the paused state. The paused state is set only
\* when the CPU exceeds cpu_usage_limit and auto_pause_on_high_load is true.
C25_ThresholdsInPriorityOrder ==
    [][\A m \in MemSamples, c \in CpuSamples :
          (CheckLimits(m, c) /\ last_sample' = <<m, c>>) =>
             /\ m > emergency_memory_limit_mb
                   => (last_events' \subseteq {"emergency"} /\ paused' = paused)
             /\ (m > memory_limit_mb /\ m <= emergency_memory_limit_mb
                   /\ c <= cpu_usage_limit)
                   => /\ last_events' = {"warning"}
                      /\ emergency_triggered' = emergency_triggered
                      /\ paused' = paused
             /\ (paused' /\ ~paused)
                   => (c > cpu_usage_limit /\ auto_pause_on_high_load)]_vars

\* the latest sample was above the emergency ceiling and the CPU limit while
\* the limiter was neither paused nor in emergency: only "emergency" was sent
C25_Witness ==
    /\ last_sample = <<emergency_memory_limit_mb + 1, cpu_usage_limit + 1>>
    /\ last_events = {"emergency"}
    /\ auto_pause_on_high_load
    /\ ~paused

RECURSIVE Flatten(_)
Flatten(batches) ==
    IF batches = <<>> THEN <<>> ELSE Head(batches) \o Flatten(Tail(batches))

\* a is b with some elements left out
RECURSIVE IsSubsequence(_, _)
IsSubsequence(a, b) ==
    IF a = <<>> THEN TRUE
    ELSE IF b = <<>> THEN FALSE
    ELSE IF Head(a) = Head(b) THEN IsSubsequence(Tail(a), Tail(b))
    ELSE IsSubsequence(a, Tail(b))

NoDuplicates(paths) ==
    \A i, j \in 1..Len(paths) : paths[i] = paths[j] => i = j

\* C26: every batch handed to the emit callback during a scan holds between 1
\* and scan_batch_size records, every batch but possibly the last holds exactly
\* scan_batch_size, the records of the batches are in discovery order, and when
\* the scan ends every successfully analyzed file is in exactly one batch: the
\* trailing partial batch is handed on at the end of the scan.
C26_BatchesAreFullAndOrdered ==
    /\ \A e \in 1..Len(emitted) :
          /\ Len(emitted[e]) \in 1..scan_batch_size
          /\ e < Len(emitted) => Len(emitted[e]) = scan_batch_size
    /\ IsSubsequence(Flatten(emitted), discovered)
    /\ NoDuplicates(Flatten(emitted))
    /\ scan_pc \in {"finish", "done"} => Len(Flatten(emitted)) = stats.files_processed

\* a scan has ended with a full batch and a trailing partial batch handed on
C26_Witness ==
    /\ scan_pc = "done"
    /\ Len(emitted) = 2
    /\ Len(emitted[1]) = scan_batch_size
    /\ Len(emitted[2]) < scan_batch_size

\* stop() was called on a scan that is in progress
Stopped == scan_pc \notin {"idle", "done", "failed"} /\ ~scanner_running

\* scan_project, or the batch callback it awaits, can take its next step
\* (SaveBatch has no other condition than SaveBatchReady)
ScanProceeds ==
    \/ SaveBatchReady
    \/ ENABLED (\/ EnterDirectory \/ FileEntry \/ DirEntry \/ DiscoveryDone
                \/ AnalyzeYielded \/ FinalFlush \/ ConsumerCallback \/ ScanReturn
                \/ CallbackAcquire \/ CallbackPollWake \/ CallbackRelease
                \/ CallbackExcept)

Executing(t) == sweep_pc[t] \in {Kinds[i] : i \in 1..Len(Kinds)}

\* C28: at most one reconciliation sweep executes at any time: the sweep of
\* the periodic loop and the final sweep of stop() never interleave, the
\* changes of one sweep are applied completely before the next sweep starts.
C28_OneSweepAtATime ==
    /\ ~(Executing("loop") /\ Executing("stop"))
    /\ \A t \in SweepTasks : Executing(t) => processing_lock.locked

\* stop() waits for the lock while the loop's sweep is half done
C28_Witness ==
    /\ sweep_pc["loop"] = "deleted"
    /\ sweep_pc["stop"] = "waiting"

\* no link is being listed, no directory is being listed inside itself and no
\* file was discovered twice in this scan
NoCycleFollowed ==
    /\ \A i \in 1..Len(stack) : ~IsSymlink(stack[i].dir)
    /\ \A i, j \in 1..Len(stack) : i < j => stack[i].dir # stack[j].dir
    /\ NoDuplicates(discovered)

\* C29: directory traversal never descends into a symlinked directory, so the
\* discovery terminates on every finite tree, also when links form a cycle:
\* no cycle is ever followed, and a resumed discovery always comes to its next
\* file or to its end.
C29_LinksAreNotFollowed ==
    /\ []NoCycleFollowed
    /\ (scan_pc = "discover") ~> (scan_pc # "discover")

\* the recursion has just passed the link in the root of a tree that exists,
\* after the files of the root were discovered
C29_Witness ==
    /\ Len(stack) = 1
    /\ stack[1].phase = "dirs"
    /\ stack[1].idx > 1
    /\ IsSymlink(Entries(Root)[stack[1].idx - 1])
    /\ scanner_running
    /\ discovered # <<>>

\* how far below the root an entry of the tree lies
DepthOf(e) == Cardinality(AncestorsOf(e))

\* the directories in listing are within the depth, and so are the
\* directories of the files discovered and the depth the statistics record
WithinDepth ==
    /\ stats.max_depth <= max_directory_depth
    /\ \A i \in 1..Len(stack) :
          /\ stack[i].depth = DepthOf(stack[i].dir)
          /\ stack[i].phase # "enter" => stack[i].depth <= max_directory_depth
    /\ \A i \in 1..Len(discovered) :
          DepthOf(ParentOf(discovered[i])) <= max_directory_depth

\* _scan_directory has been entered for a directory that lies too deep
TooDeep ==
    /\ scan_pc = "discover"
    /\ stack # <<>>
    /\ Top.phase = "enter"
    /\ Top.depth > max_directory_depth

\* C30: no directory deeper than max_directory_depth below the root is listed
\* and no file under such a directory is discovered; leaving that branch is
\* not an error: the statistics stay as they are, the directory above goes on
\* with its next entry, and the recorded max_depth never exceeds
\* max_directory_depth.
C30_DepthIsBounded ==
    /\ []WithinDepth
    /\ [][(TooDeep /\ stack' # stack) =>
            /\ stack' = Pop(stack)
            /\ scan_pc' = "discover"
            /\ UNCHANGED <<stats, scanner_running, discovered>>]_vars

\* a scan has completed that turned away from node_modules/pkg, two levels
\* below the root, and went on to the files of the sibling branch src
C30_Witness ==
    /\ scan_pc = "done"
    /\ \E i \in 1..Len(discovered) : discovered[i] = "src/c.py"
    /\ DepthOf("node_modules/pkg") > max_directory_depth
    /\ stats.max_depth = max_directory_depth
    /\ stats.files_errored = 0

\* C31: the sample history of the ResourceMonitor never holds more than its
\* capacity: when a new sample would exceed it the oldest sample is dropped,
\* and the retained samples stay in capture order (they are the latest
\* samples, oldest first).
C31_HistoryIsBounded ==
    /\ Len(samples) <= max_samples
    /\ Len(samples) = Min(captured, max_samples)
    /\ \A i \in 1..Len(samples) : samples[i] = captured - Len(samples) + i

\* more samples were collected than the history holds, by two loops
C31_Witness ==
    /\ captured > max_samples + 1
    /\ Len(samples) = max_samples
    /\ Cardinality(sample_writers) = 2

\* C32: when an add_change brings the ChangeBuffer to max_size pending entries
\* a flush is forced, so the buffer never holds more than max_size pending
\* changes.
C32_BufferWithinMaxSize == Len(changes) <= max_size

\* a scan is running and pause() was called on its scanner
PausedScan == scanner_paused /\ scan_pc \notin {"idle", "done", "failed"}

\* C33: after pause() is called on a scanner and until resume() is called, a
\* running scan starts no new analysis of a file and discovers no new file.
C33_PausedScanStandsStill ==
    [][(PausedScan /\ scanner_paused') =>
          /\ discovered' = discovered
          /\ stats'.files_processed = stats.files_processed
          /\ stats'.files_errored = stats.files_errored]_vars

\* C34: release_worker() is called only by work that a successful
\* acquire_worker() granted a slot: over a performance-aware scan the releases
\* never exceed the grants, also when acquire_worker fails, so the free permits
\* and the slots held never add up to more than current_workers.
C34_ReleasesWithinGrants == sems[Cur].value + Held <= current_workers

\* the rows the persistence port holds for a path
RowsOf(p) == {i \in 1..Len(db) : db[i].relative_path = p}

\* C35: after any sequence of full scans and reconciled Created, Modified and
\* Moved events the persistence port holds at most one record per relative
\* path of the project: an upsert for a path that has a record updates it and
\* never creates a second one.
C35_OneRecordPerPath == \A i \in 1..Len(db) : Cardinality(RowsOf(db[i].relative_path)) <= 1

\* the sample the CPU check of the limiter pauses on, as the claim words it
\* and as _check_limits has it
PausingSampleAsWorded(m, c) == c > cpu_usage_limit /\ auto_pause_on_high_load

PausingSample(m, c) ==
    /\ c > cpu_usage_limit
    /\ auto_pause_on_high_load
    /\ m <= emergency_memory_limit_mb

\* what a sample does to the paused state when Pausing tells the samples that
\* pause: the first of them sets it and sends one pause notification, every
\* other sample leaves it as it is and sends none
PausedIsLatched(Pausing(_, _)) ==
    /\ \A m \in MemSamples, c \in CpuSamples :
          (CheckLimits(m, c) /\ last_sample' = <<m, c>> /\ captured' = captured + 1) =>
             IF ~paused /\ Pausing(m, c)
             THEN paused' /\ "pause" \in last_events'
             ELSE paused' = paused /\ "pause" \notin last_events'
    /\ (paused /\ ~paused') => ResetPause

\* C36 as worded: the paused state is set, with one pause notification, on
\* the first sample whose CPU exceeds the limit while auto-pause is enabled, is
\* left unchanged by every later sample, and is cleared only by reset_pause().
C36_LatchAsWorded == [][PausedIsLatched(PausingSampleAsWorded)]_vars

\* C36: the paused state is set, with one pause notification, on the first
\* sample whose CPU exceeds the limit while auto-pause is enabled and whose
\* memory is not above the emergency ceiling; every other sample leaves it
\* unchanged and sends no pause notification; only reset_pause() clears it.
C36_PausedIsALatch == [][PausedIsLatched(PausingSample)]_vars

\* the limiter is paused and its latest sample, again above the CPU limit,
\* sent nothing
C36_Witness ==
    /\ paused
    /\ auto_pause_on_high_load
    /\ last_sample = <<memory_limit_mb, cpu_usage_limit + 1>>
    /\ last_events = {}
    /\ captured >= 2

\* C37: once latched, the emergency state of the ResourceLimiter is never
\* cleared by any operation: not by reset_pause(), not by later samples below
\* the ceiling, not by stop() followed by start().
C37_EmergencyStaysLatched == [][emergency_triggered => emergency_triggered']_vars

\* the emergency state is latched after a second start() made a second loop
\* and that loop took a sample below the emergency ceiling
C37_Witness ==
    /\ emergency_triggered
    /\ monitor_running
    /\ Len(monitor_loops) = 2
    /\ sample_writers = {2}
    /\ captured = 2
    /\ last_sample[1] <= emergency_memory_limit_mb
    /\ ~paused

\* C38: in the ScanStats of a scanner files_processed + files_errored never
\* exceeds files_discovered, under every interleaving, also when a full scan
\* runs on the monitor's scanner while the monitor's reconciliation analyzes
\* files with that scanner.
C38_ProcessedWithinDiscovered ==
    scan_pc # "idle" => stats.files_processed + stats.files_errored <= stats.files_discovered

\* the update of the i-th queue_hub_update call waits in pending_updates
HubPending(i) == \E u \in hub_pending : u.id = i

\* C39: every hub update accepted by queue_hub_update is eventually taken by
\* a batch run, without a further queue_hub_update call, also when it was
\* queued, and its timer fired, while another batch was being processed.
C39_QueuedIsEventuallyTaken == \A i \in 1..MaxUpdates : HubPending(i) ~> ~HubPending(i)

====
